---- MODULE Spec2Model ----
(***************************************************************************)
(* Mood Calendar core (src/app-core.js, src/unnamed/part_006): the         *)
(* persistent store created by createStore, its subscribers, and the       *)
(* durable record it keeps in localStorage.                                *)
(*                                                                         *)
(* JavaScript values are tagged records:                                   *)
(*   [t |-> "obj", f |-> key -> value]            plain object             *)
(*   [t |-> "arr", e |-> <<items>>, f |-> props]  array (+ named props)    *)
(*   [t |-> "str" | "num" | "bool" | "null" | "undef", v |-> literal]      *)
(* JSON text is kept as its syntax tree (records tagged by j), so that     *)
(* JSON.stringify and JSON.parse are translations and not the identity.    *)
(* Key order inside an object is not modelled: deep equality ignores it.   *)
(***************************************************************************)
EXTENDS Integers, Sequences, FiniteSets, TLC

(* ------------------------------ bounds -------------------------------- *)
\* update/setState calls in a run with subscribers (Spec)
MaxOps == 2
\* update/setState calls in a run without subscribers (SpecTree)
MaxTreeOps == 2
\* slots of the subscribers Set's entry list while it is being iterated
MaxEntries == 3
\* store calls one subscriber makes while it is being notified
MaxHandlerCalls == 1
\* page reloads (createStore runs again on the same durable storage)
MaxRestarts == 1
\* calls of the theme helpers in a run of them (SpecTheme)
MaxThemeCalls == 3
\* stop() calls in a run of the practice engine, those made by start and
\* closeTherapy included (SpecPractice)
MaxStops == 3
\* largest step number a steps practice is advanced to (SpecPractice)
MaxStep == 3
\* openModal calls in a run of the practice engine (SpecPractice)
MaxOpens == 2
\* entries of the current day in a journal of the statistics (SpecStats)
MaxDayEntries == 3
\* largest magnitude of an hourly sum in a run of the palette (SpecPalette)
MaxTotal == 75
\* navigations started from outside the router in a run of it (SpecRouter)
MaxNavs == 3
\* emit calls in a run of the event bus (SpecBus)
MaxEmits == 2
\* update calls in a run with runtimes of several versions (SpecVersion)
MaxVersionOps == 2
\* page loads after the first in such a run
MaxDeploys == 2

(* --------------------------- JavaScript values ------------------------ *)
EmptyMap == [k \in {} |-> 0]
Obj(f) == [t |-> "obj", f |-> f]
Arr(e, f) == [t |-> "arr", e |-> e, f |-> f]
Str(s) == [t |-> "str", v |-> s]
Num(s) == [t |-> "num", v |-> s]
Bool(s) == [t |-> "bool", v |-> s]
Null == [t |-> "null", v |-> "null"]
Undefined == [t |-> "undef", v |-> "undefined"]
NaN == Num("NaN")
EmptyObj == Obj(EmptyMap)
EmptyArr == Arr(<<>>, EmptyMap)

\* typeof x === 'object' && x !== null
IsObject(x) == x.t \in {"obj", "arr"}

\* node[key], for a key that is not an array index
GetKey(node, key) ==
  IF IsObject(node) /\ key \in DOMAIN node.f THEN node.f[key] ELSE Undefined

\* node[key] = val
SetKey(node, key, val) ==
  [node EXCEPT !.f = [q \in (DOMAIN node.f) \cup {key} |->
                        IF q = key THEN val ELSE node.f[q]]]

RECURSIVE GetPath(_, _)
GetPath(node, parts) ==
  IF parts = <<>> THEN node
  ELSE GetPath(GetKey(node, Head(parts)), Tail(parts))

\* the own keys of an object or array (named properties only)
Keys(node) == IF IsObject(node) THEN DOMAIN node.f ELSE {}

(* ------------------------------ initialState -------------------------- *)
InitialStateLiteral ==
  Obj([version |-> Num("1"),
       ui |-> Obj([page |-> Str("calendar"), theme |-> Str("auto")]),
       profile |-> Obj([language |-> Str("ru"), soundOn |-> Bool("true"),
                        averages |-> EmptyObj, triggers |-> EmptyObj,
                        helps |-> EmptyArr]),
       journal |-> EmptyArr,
       testsResults |-> Obj([phq2 |-> EmptyArr]),
       catalog |-> Obj([tests |-> EmptyArr, practices |-> EmptyArr]),
       settings |-> Obj([reminders |-> EmptyArr])])

(* -------------------------------- JSON -------------------------------- *)
NoText == [j |-> "none", s |-> ""]
JLit(s) == [j |-> "literal", s |-> s]

\* JSON.stringify: SerializeJSONProperty. undefined has no text; a key whose
\* value has no text is left out of an object, and becomes null in an array;
\* a non-finite number becomes null; an array's named properties are left out.
RECURSIVE Stringify(_)
Stringify(x) ==
  CASE x.t = "undef" -> NoText
    [] x.t = "null" -> JLit("null")
    [] x.t = "bool" -> JLit(x.v)
    [] x.t = "num" -> IF x.v \in {"NaN", "Infinity", "-Infinity"}
                      THEN JLit("null")
                      ELSE [j |-> "number", s |-> x.v]
    [] x.t = "str" -> [j |-> "string", s |-> x.v]
    [] x.t = "arr" ->
         [j |-> "array",
          items |-> [i \in 1..Len(x.e) |->
                       IF Stringify(x.e[i]) = NoText THEN JLit("null")
                       ELSE Stringify(x.e[i])]]
    [] x.t = "obj" ->
         [j |-> "object",
          m |-> [q \in {q \in DOMAIN x.f : x.f[q].t # "undef"} |->
                   Stringify(x.f[q])]]

\* JSON.parse of a well-formed text
RECURSIVE Parse(_)
Parse(text) ==
  CASE text.j = "literal" ->
         IF text.s = "null" THEN Null ELSE Bool(text.s)
    [] text.j = "number" -> Num(text.s)
    [] text.j = "string" -> Str(text.s)
    [] text.j = "array" ->
         Arr([i \in 1..Len(text.items) |-> Parse(text.items[i])], EmptyMap)
    [] text.j = "object" ->
         Obj([q \in DOMAIN text.m |-> Parse(text.m[q])])

(* --------------------------- durable storage -------------------------- *)
\* localStorage.getItem(STORE_KEY): null, "", a text JSON.parse rejects, or
\* a JSON text
Absent == [k |-> "absent"]
EmptyString == [k |-> "empty"]
Garbage == [k |-> "garbage"]
JsonRecord(text) == [k |-> "json", text |-> text]

\* `raw ? ... : ...`: null and "" are falsy
Truthy(raw) == raw.k \in {"garbage", "json"}
\* JSON.parse(raw) does not throw
Deserializes(raw) == raw.k = "json"

\* (mutant) the stored tree is merged over the defaults
LoadStateMerged(raw, initial) ==
  IF Truthy(raw) /\ Deserializes(raw)
  THEN [tree |-> Obj([q \in DOMAIN initial.f \cup DOMAIN Parse(raw.text).f |->
                        IF q \in DOMAIN Parse(raw.text).f
                        THEN Parse(raw.text).f[q] ELSE initial.f[q]]),
        same |-> FALSE]
  ELSE [tree |-> Parse(Stringify(initial)), same |-> FALSE]

\* (mutant) the fallback is the initialState object itself, not a copy
LoadStateNoCopy(raw, initial) ==
  IF Truthy(raw) /\ Deserializes(raw)
  THEN [tree |-> Parse(raw.text), same |-> FALSE]
  ELSE [tree |-> initial, same |-> TRUE]

\* createStore, lines 55-61: the loaded tree, and whether it is the very
\* object passed as initialState (it never is: the fallback is
\* JSON.parse(JSON.stringify(initialState)), a fresh tree)
LoadState(raw, initial) ==
  IF Truthy(raw) /\ Deserializes(raw)
  THEN [tree |-> Parse(raw.text), same |-> FALSE]
  ELSE [tree |-> Parse(Stringify(initial)), same |-> FALSE]

(* ------------------------------ mutations ----------------------------- *)
\* path.split('.') on the paths the model's callers use
Split(path) ==
  CASE path = "ui.page" -> <<"ui", "page">>
    [] path = "ui" -> <<"ui">>
    [] path = "ui.theme" -> <<"ui", "theme">>
    [] path = "version" -> <<"version">>
    [] path = "a.b.c" -> <<"a", "b", "c">>
    [] path = "ui.mode.x" -> <<"ui", "mode", "x">>
    [] path = "ui.theme.x" -> <<"ui", "theme", "x">>
    [] path = "journal.k" -> <<"journal", "k">>
    [] path = "version.x" -> <<"version", "x">>
    [] path = "profile.soundOn.x" -> <<"profile", "soundOn", "x">>

\* (mutant) update walks and writes `state` itself
StructuredCloneNone(tree) == [tree |-> tree, same |-> TRUE]

\* structuredClone(state): a new tree equal by value (named properties of
\* arrays and undefined values are kept)
StructuredClone(tree) == [tree |-> tree, same |-> FALSE]

\* typeof x
TypeOf(x) ==
  CASE x.t \in {"obj", "arr", "null"} -> "object"
    [] x.t = "undef" -> "undefined"
    [] x.t = "num" -> "number"
    [] x.t = "str" -> "string"
    [] x.t = "bool" -> "boolean"

\* (mutant) the null test is missing
ShouldReplaceTypeofOnly(x) == TypeOf(x) # "object"

\* line 90: `typeof node[key] !== 'object' || node[key] === null`
ShouldReplace(x) == TypeOf(x) # "object" \/ x = Null

\* a property read on null or undefined, or (strict mode) a property write
\* on a primitive, throws
TypeError == [t |-> "TypeError", v |-> "thrown"]

\* (mutant) every intermediate node is replaced by a new object
RECURSIVE WalkAndSetFresh(_, _, _)
WalkAndSetFresh(node, parts, value) ==
  IF ~IsObject(node) THEN TypeError
  ELSE IF Len(parts) = 1 THEN SetKey(node, parts[1], value)
  ELSE SetKey(node, parts[1], WalkAndSetFresh(EmptyObj, Tail(parts), value))

\* update, lines 87-93: the walk over `next`, creating or replacing every
\* intermediate node the test of line 90 rejects, then the leaf assignment
RECURSIVE WalkAndSet(_, _, _)
WalkAndSet(node, parts, value) ==
  IF ~IsObject(node) THEN TypeError
  ELSE IF Len(parts) = 1 THEN SetKey(node, parts[1], value)
  ELSE LET key == parts[1]
           child == IF ShouldReplace(GetKey(node, key)) THEN EmptyObj
                    ELSE GetKey(node, key)
           below == WalkAndSet(child, Tail(parts), value)
       IN IF below = TypeError THEN TypeError ELSE SetKey(node, key, below)

\* (mutant) the patch replaces the state
SpreadMergePatchOnly(tree, patch) == patch

\* { ...state, ...patch }
SpreadMerge(tree, patch) ==
  Obj([q \in Keys(tree) \cup Keys(patch) |->
         IF q \in Keys(patch) THEN patch.f[q] ELSE tree.f[q]])

\* the functions callers hand to setState
ApplyFn(name, tree) ==
  CASE name = "same" -> tree
    [] name = "onlyUi" -> Obj([q \in Keys(tree) \cap {"ui"} |-> tree.f[q]])

\* setState, line 63 of part_006: the next tree, and whether it is the
\* object `state` already refers to
SetStateNext(arg, tree) ==
  IF arg.isFn
  THEN [tree |-> ApplyFn(arg.name, tree), same |-> arg.name = "same"]
  ELSE [tree |-> SpreadMerge(tree, arg.patch), same |-> FALSE]

\* (mutant) notify() is called before persist()
MutationStepsNotifyFirst == <<"notify", "persist">>

\* update/setState, lines 94-96: what follows `state = next`, in order
MutationSteps == <<"persist", "notify">>

\* (mutant) the silent option is ignored
ShouldNotifyAlways(silent) == TRUE

\* line 96: `if (!silent) notify()`
ShouldNotify(silent) == ~silent

\* (mutant) persist has no try/catch
OnWriteFailureThrown == "thrown"

\* persist, lines 64-70: a throwing setItem (or stringify) is caught and logged
OnWriteFailure == "caught"

(* ------------------------- versions and builds ------------------------ *)
\* line 22: the schema version compiled into the runtime
STORE_VERSION == 1
\* the versions a deployed runtime may carry: the present one and a bumped one
Versions == {STORE_VERSION, STORE_VERSION + 1}
\* (mutant) the key does not embed the version
StoreKeyFixed(v) == "appStore"

\* line 23: STORE_KEY = 'appStore_v' + STORE_VERSION
StoreKey(v) == "appStore_v" \o ToString(v)
StorageKeys == {StoreKey(v) : v \in Versions}
\* lines 107-131 in a runtime of version v: `version: STORE_VERSION`
InitialStateOf(v) == SetKey(InitialStateLiteral, "version", Num(ToString(v)))

\* the two builds of the core and the methods of the object createStore
\* returns in each (app-core.js lines 78-102, part_006 lines 60-87)
AppCore == "src/app-core.js"
Part006 == "src/unnamed/part_006"
Builds == {AppCore, Part006}
StoreApi(b) ==
  IF b = Part006 THEN {"getState", "setState", "update", "subscribe"}
  ELSE {"getState", "update", "subscribe"}

\* (mutant) notify has no try/catch around fn(state)
OnSubscriberErrorThrown == "thrown"

\* notify, line 74: `try { fn(state); } catch (err) { console.error(err); }`
OnSubscriberError == "caught"

(* ---------------------------- subscribers Set ------------------------- *)
\* The Set's entry list in insertion order. While an iteration is under way
\* a deleted entry leaves an empty slot and an added value is appended
\* (ECMAScript Set.prototype.forEach / the Set iterator); with no iteration
\* under way the empty slots cannot be observed and are dropped.
Handlers == {"h1", "h2"}
Empty == "empty"
Live(es) == {es[i] : i \in DOMAIN es} \ {Empty}
Compact(es) == SelectSeq(es, LAMBDA x : x # Empty)

\* subscribers.add(fn)
SetAdd(es, fn) == IF fn \in Live(es) THEN es ELSE Append(es, fn)
\* (mutant) the returned function does not delete
SetDeleteNothing(es, fn) == es

\* subscribers.delete(fn)
SetDelete(es, fn) == [i \in DOMAIN es |-> IF es[i] = fn THEN Empty ELSE es[i]]

\* the slot forEach visits after slot idx: the next one that is not empty
\* (0: none is left)
NextSlot(es, idx) ==
  IF \E i \in DOMAIN es : i > idx /\ es[i] # Empty
  THEN CHOOSE i \in DOMAIN es :
         /\ i > idx /\ es[i] # Empty
         /\ \A k \in DOMAIN es : (k > idx /\ es[k] # Empty) => i <= k
  ELSE 0

(* ------------------------------ event bus ----------------------------- *)
\* createEventBus, lines 28-47. `listeners` is a Map from event name to a Set
\* of callbacks; each Set is an entry list as above.
Events == {"route:change", "app:ready"}
Callbacks == {"c1", "c2"}
\* line 29: new Map()
NoListeners == [keys |-> {}, sets |-> [e \in Events |-> <<>>]]
\* listeners.has(event)
Has(ls, event) == event \in ls.keys
\* the callbacks registered for event
Registered(ls, event) == IF Has(ls, event) THEN Live(ls.sets[event]) ELSE {}

\* on, lines 32-33
BusOn(ls, event, cb) ==
  [keys |-> ls.keys \cup {event},
   sets |-> [ls.sets EXCEPT ![event] = SetAdd(@, cb)]]

\* (mutant) off clears the callback under every event name
OffEventsAll(event) == Events

\* off, lines 37-38: the event names whose Set off(event, cb) deletes from
OffEvents(event) == {event}

\* off, lines 36-39
BusOff(ls, event, cb) ==
  IF ~Has(ls, event) THEN ls
  ELSE [ls EXCEPT !.sets = [e \in Events |->
                              IF e \in OffEvents(event)
                              THEN SetDelete(ls.sets[e], cb) ELSE ls.sets[e]]]

\* (mutant) emit has no try/catch around cb(payload)
OnListenerErrorThrown == "thrown"

\* emit, line 43: `try { cb(payload); } catch (err) { console.error(err); }`
OnListenerError == "caught"

(* -------------------------------- router ------------------------------ *)
\* the page containers of the document, each named by its data-page
PageContainers == {"calendar", "stats", "my page"}
\* line 165: the id navigateTo falls back to
Home == "calendar"
\* `!id`
Falsy(id) == id = ""
\* (mutant) the fragment keeps the id as it was given
SetHashRaw(id) == id

\* lines 166-167, `location.hash = id`: the fragment the address then holds;
\* the URL parser percent-encodes what a fragment cannot hold, such as a space
SetHash(id) == IF id = "my page" THEN "my%20page" ELSE id
\* `location.hash`: "" without a fragment, else "#" and the fragment
GetHash(fragment) == IF fragment = "" THEN "" ELSE "#" \o fragment
\* the fragments an address of the model can hold
Fragments == {"", "calendar", "stats", "nowhere", "my%20page"}
\* line 175: (location.hash || '#calendar').slice(1)
HashId(fragment) ==
  LET h == IF GetHash(fragment) = "" THEN "#" \o Home ELSE GetHash(fragment)
  IN CHOOSE f \in Fragments : "#" \o f = h
\* (mutant) showPage shows the target and hides nothing
ShowPageNoHide(shown, id) ==
  [p \in PageContainers |-> IF p = id THEN "" ELSE shown[p]]

\* showPage, lines 149-158
ShowPage(shown, id) ==
  [p \in PageContainers |-> IF p = id THEN "" ELSE "none"]
\* (mutant) the router's write notifies the subscribers
NavOptionsLoud == [silent |-> FALSE]

\* line 170: the options of the router's store.update
NavOptions == [silent |-> TRUE]

(* ------------------------------- palette ------------------------------ *)
\* src/scripts/utils.js, lines 27-32
MAX_ABS == 50
BLUE_STEPS == <<"#104fcd", "#1259e7", "#296aee", "#437df0", "#5e8ff2">>
GREEN_STEPS == <<"#1b9744", "#20b351", "#25d05e", "#3adc70", "#56e184">>
NEUTRAL_YELLOW == "#CDAA4A"
\* Math.max, Math.min, Math.abs on integers
Max(a, b) == IF a >= b THEN a ELSE b
Min(a, b) == IF a <= b THEN a ELSE b
Abs(a) == IF a < 0 THEN -a ELSE a
\* line 34: clamp
Clamp(v, lo, hi) == Max(lo, Min(hi, v))
\* (mutant) a multiple of 10 goes to the next bucket: floor(abs / 10) + 1
BucketRoundUp(abs) == abs \div 10 + 1

\* line 40: Math.ceil(Math.abs(total) / 10)
Bucket(abs) == (abs + 9) \div 10
\* the result `null` of bucketIndex
NoIndex == -1
\* (mutant) bucketIndex without the clamp
BucketIndexNoClamp(totalRaw) ==
  IF totalRaw = 0 THEN NoIndex ELSE 5 - Bucket(Abs(totalRaw))

\* bucketIndex, lines 37-42
BucketIndex(totalRaw) ==
  LET t == Clamp(totalRaw, -MAX_ABS, MAX_ABS)
  IN IF t = 0 THEN NoIndex ELSE 5 - Bucket(Abs(t))
\* STEPS[idx] of JavaScript: undefined outside the array
Step(steps, idx) ==
  IF idx + 1 \in DOMAIN steps THEN steps[idx + 1] ELSE "undefined"
\* (mutant) moodColor without the test for null
MoodColorNoNeutral(totalRaw) ==
  IF totalRaw > 0 THEN Step(GREEN_STEPS, BucketIndex(totalRaw))
  ELSE Step(BLUE_STEPS, BucketIndex(totalRaw))
\* (mutant) moodColor with the green palette for both signs
MoodColorOnePalette(totalRaw) ==
  IF BucketIndex(totalRaw) = NoIndex THEN NEUTRAL_YELLOW
  ELSE Step(GREEN_STEPS, BucketIndex(totalRaw))

\* moodColor, lines 45-49
MoodColor(totalRaw) ==
  LET idx == BucketIndex(totalRaw)
  IN IF idx = NoIndex THEN NEUTRAL_YELLOW
     ELSE IF totalRaw > 0 THEN Step(GREEN_STEPS, idx) ELSE Step(BLUE_STEPS, idx)
\* no bar has been painted
NotPainted == [x |-> 0, idx |-> NoIndex, color |-> "none"]

(* ------------------------------ statistics ---------------------------- *)
\* JavaScript values of an entry's fields, by what Number() makes of them:
\* n |-> the number, nan |-> Number(v) is NaN
JsNumber(n) == [t |-> "number", n |-> n, nan |-> FALSE]
JsUndefined == [t |-> "undefined", n |-> 0, nan |-> TRUE]
JsText == [t |-> "string", n |-> 0, nan |-> TRUE]
JsNumeral(n) == [t |-> "string", n |-> n, nan |-> FALSE]
\* (mutant) every count is truthy
NonZeroAlways(n) == TRUE

\* a count in a condition: 0 is falsy
NonZero(n) == n # 0
\* app-core.js lines 290, 390, 391: Number(v) || 0 (NaN and 0 are falsy)
OrZero(v) == IF v.nan \/ v.n = 0 THEN 0 ELSE v.n
\* line 386: Array(24)
HourCount == 24
Hours == 0 .. (HourCount - 1)
\* the keys of window.moodData: today's (line 384) and an earlier day's
TodayKey == "2025-01-02"
EarlierKey == "2025-01-01"
DateKeys == {EarlierKey, TodayKey}
\* window.moodData has no such key / has this array under it
NoDay == [present |-> FALSE, arr |-> <<>>]
Day(arr) == [present |-> TRUE, arr |-> arr]
\* lines 286, 385: window.moodData?.[k] ?? []
DayEntries(data, k) == IF data[k].present THEN data[k].arr ELSE <<>>
\* a quotient a / b of JavaScript: b = 0 makes it NaN (0 / 0, the only
\* quotient by 0 that the counts can form)
Ratio(a, b) == [num |-> a, den |-> b]
IsNaN(q) == q.den = 0
\* Math.round(q * 100) of a quotient of counts
RoundPercent(q) ==
  IF IsNaN(q) THEN [n |-> 0, nan |-> TRUE]
  ELSE [n |-> (200 * q.num + q.den) \div (2 * q.den), nan |-> FALSE]
\* the number n as a result
Exact(n) == [n |-> n, nan |-> FALSE]
\* no statistics function is running
NoCall == [fn |-> "none"]
NoMoodData == [k \in DateKeys |-> NoDay]
\* line 221: hourlyChart = null
NoChart == [drawn |-> FALSE]

(* --------------------------- practice engine -------------------------- *)
\* window.PRACTICES: a timer practice of two phases (seconds 2 and 1) and
\* two cycles, and a steps practice of two steps
Breathing ==
  [id |-> "478", type |-> "timer", phases |-> <<2, 1>>, cycles |-> 2,
   steps |-> 0]
Grounding ==
  [id |-> "54321", type |-> "steps", phases |-> <<>>, cycles |-> 0,
   steps |-> 2]
Practices == {Breathing, Grounding}
\* practiceEngine.js line 12: state = null
NoPractice ==
  [open |-> FALSE, cfg |-> Breathing, running |-> FALSE, cycle |-> 0,
   step |-> 0]
\* what the popup shows: phase (a label, and the phase or step and the cycle
\* it names), time, ring (degrees)
Label(text, i, cycle) == [text |-> text, i |-> i, cycle |-> cycle]
Time(text, n) == [text |-> text, n |-> n]
ClosedPanel ==
  [hidden |-> TRUE, startBtn |-> "unbound", phase |-> Label("", 0, 0),
   time |-> Time("", 0), ring |-> 0]
\* the timers of the host: kind "interval", "runPhase" (the 200 ms timeout)
\* or "runTimerCycle" (the 300 ms timeout); cfg and i are the variables its
\* closure holds, left and seconds those of the phase it counts down; born
\* is the number of stop() calls made before it was scheduled
Timer(kind, id, cfg, i, left, seconds, born) ==
  [kind |-> kind, id |-> id, cfg |-> cfg, i |-> i, left |-> left,
   seconds |-> seconds, born |-> born]
NoCallback == [kind |-> "none", born |-> 0]
\* clearInterval(id)
ClearInterval(timers, id) == {t \in timers : ~(t.kind = "interval" /\ t.id = id)}
\* line 48: cfg.cycles || 1
CyclesOf(cfg) == IF cfg.cycles = 0 THEN 1 ELSE cfg.cycles

(* ----------------------------- theme helpers -------------------------- *)
\* the scripts that define window.setTheme / getTheme; the one loaded first
\* defines them (utils.js lines 11, 18; part_002 lines 11, 19)
Prelude == "src/unnamed/part_002"
Utils == "src/scripts/utils.js"
\* part_002 line 8 (THEME_KEY) and utils.js line 14
ThemeKeyOf(impl) == IF impl = Prelude THEN "THEME" ELSE "theme"
ThemeKeyNames == {"theme", "THEME"}
\* no theme stored ("": getItem returns null), no data-theme attribute
NoThemeKeys == [k \in ThemeKeyNames |-> ""]
NoRootTheme == [attr |-> "", cls |-> ""]
\* a localStorage call
Touch(by, op, key) == [by |-> by, op |-> op, key |-> key]

(* ------------------------------- state -------------------------------- *)
VARIABLES
  state,         \* createStore's `state`
  initialState,  \* the object passed to createStore
  shared,        \* `state` refers to the initialState object itself
  storage,       \* localStorage[STORE_KEY]
  entries,       \* createStore's `subscribers`
  stack,         \* the call stack: mutation, notify and subscriber frames
  ev,            \* the step just taken: "create", "assign", "persist",
                 \* "invoke", "return", "threw", or "step" for any other
  ret,           \* the frame of the call that has just returned
  dirty,         \* state was replaced and persist has not run yet
  wstat,         \* outcome of the last persist: "none", "ok", "failed"
  ops,           \* update/setState calls made
  restarts,      \* page reloads made
  issued,        \* handlers whose subscribe call returned an unsubscribe
  unsubbed,      \* handlers unsubscribed since their last subscribe
  everUnsub,     \* handlers whose unsubscribe was ever called
  runtime,       \* STORE_VERSION of the runtime that is loaded
  shelf,         \* localStorage under the keys other than STORE_KEY
  build,         \* the build of the core that is loaded
  writer,        \* per storage key: STORE_VERSION of the runtime that wrote
                 \* the record under it (0: no runtime of this run)
  listeners,     \* createEventBus's `listeners`: keys |-> the events the
                 \* Map has, sets |-> the entry list of each event's Set
  registered,    \* the <<event, cb>> registered with on and not removed since
  emits,         \* emit calls made
  handed,        \* the <<event, cb>> whose on call returned an unsubscribe
  frag,          \* the fragment of the page address ("": none)
  pending,       \* hashchange events queued for dispatch
  display,       \* style.display of each page container
  navs,          \* navigations started from outside the router
  asked,         \* the id the last navigation request named
  total,         \* the sum of the scores entered for one hour
  painted,       \* the bar last painted for it: x |-> the sum classified,
                 \* idx |-> its bucket index, color |-> its colour
  moodData,      \* window.moodData: per date key, the entries of the day
  statsCall,     \* the statistics function called last, with its
                 \* arguments and locals ("none": no call yet)
  hourlyChart,   \* app-core.js `hourlyChart`: the chart on the canvas
  timer,         \* practiceEngine.js `timer`: an interval handle (0: null)
  practice,      \* practiceEngine.js `state`: open |-> it is an object,
                 \* cfg, running, cycle, step
  scheduled,     \* the host's timers: the intervals that are active and the
                 \* timeouts that have not fired
  handles,       \* timer handles the host has given out
  panel,         \* the therapy popup: phase, time, ring, whether it is
                 \* hidden, and what its start button calls
  stops,         \* stop() calls made
  opens,         \* openModal calls made
  fired,         \* the timer callback run by the step just taken
                 \* (kind "none": the step ran no callback)
  themeImpl,     \* the script that defined window.setTheme and getTheme
  rootTheme,     \* documentElement: attr |-> data-theme, cls |-> theme class
  themeKeys,     \* localStorage under the keys 'theme' and 'THEME'
  touched        \* localStorage calls made by code other than the store:
                 \* by, op ("getItem", "setItem"), key

vars == <<state, initialState, shared, storage, entries, stack, ev, ret,
          dirty, wstat, ops, restarts, issued, unsubbed, everUnsub,
          runtime, shelf, build, writer, listeners, registered, emits,
          handed, frag, pending, display, navs, asked, total, painted, moodData,
          statsCall, hourlyChart, timer, practice, scheduled, handles,
          panel, stops, opens, fired, themeImpl, rootTheme, themeKeys,
          touched>>
\* the theme helpers
themeVars == <<themeImpl, rootTheme, themeKeys, touched>>
\* the helpers of the prelude, not called yet
IdleTheme ==
  /\ themeImpl = Prelude
  /\ rootTheme = NoRootTheme
  /\ themeKeys = NoThemeKeys
  /\ touched = {}
\* the practice engine and the host's timers
practiceVars == <<timer, practice, scheduled, handles, panel, stops, opens,
                  fired>>
\* no practice was opened yet
IdlePractice ==
  /\ timer = 0
  /\ practice = NoPractice
  /\ scheduled = {}
  /\ handles = 0
  /\ panel = ClosedPanel
  /\ stops = 0
  /\ opens = 0
  /\ fired = NoCallback
\* the journal and the statistics computed from it
statsVars == <<moodData, statsCall, hourlyChart>>
\* a page without a journal, no statistics shown
IdleStats ==
  /\ moodData = NoMoodData
  /\ statsCall = NoCall
  /\ hourlyChart = NoChart
\* the hourly sum and its bar
paletteVars == <<total, painted>>
\* the address bar and the page containers
domVars == <<frag, pending, display, navs, asked>>
\* what no operation of a created store touches
outside == <<runtime, shelf, build, listeners, registered, emits, handed,
             domVars, paletteVars, statsVars,
                 practiceVars, themeVars>>
\* what no operation of the event bus touches
storeVars == <<state, initialState, shared, storage, entries, dirty, wstat,
               ops, restarts, issued, unsubbed, everUnsub, runtime, shelf,
               build, writer, domVars, paletteVars, statsVars,
                 practiceVars, themeVars>>

\* what the callers pass in a run with subscribers
Paths == {"ui.page"}
Values == {Str("stats")}
\* what the callers pass in a run without subscribers
TreePaths == {"ui.page", "ui", "a.b.c", "ui.mode.x", "ui.theme.x", "journal.k",
              "version.x", "profile.soundOn.x"}
TreeValues == {Str("stats"), Null, Undefined}
NoArg == [isFn |-> TRUE, name |-> "none", patch |-> EmptyObj]
PatchTheme ==
  [isFn |-> FALSE, name |-> "patch",
   patch |-> Obj([ui |-> Obj([page |-> Str("calendar"), theme |-> Str("dark")])])]
SetStateArgs ==
  { [isFn |-> FALSE, name |-> "patch",
     patch |-> Obj([ui |-> Obj([page |-> Str("stats"), theme |-> Str("dark")])])],
    [isFn |-> FALSE, name |-> "patch", patch |-> Obj([journal |-> Undefined])],
    [isFn |-> TRUE, name |-> "same", patch |-> EmptyObj],
    [isFn |-> TRUE, name |-> "onlyUi", patch |-> EmptyObj] }

\* what localStorage may hold when the page is first opened: nothing, "", a
\* damaged text, or a tree an earlier session persisted
InitialRecords ==
  { Absent, EmptyString, Garbage,
    JsonRecord(Stringify(WalkAndSet(InitialStateLiteral, <<"ui", "page">>, Str("stats")))) }

NoRet == [kind |-> "none"]
Top == stack[Len(stack)]
Pop(stk) == SubSeq(stk, 1, Len(stk) - 1)
HasNotify(stk) == \E i \in DOMAIN stk : stk[i].kind = "notify"
Settle(es, stk) == IF HasNotify(stk) THEN es ELSE Compact(es)
\* code outside the store, or a subscriber being notified, is running
CanCall ==
  IF stack = <<>> THEN TRUE
  ELSE IF Top.kind = "handler" THEN Top.calls < MaxHandlerCalls
  ELSE IF Top.kind = "nav" THEN Top.pc = "update" ELSE FALSE
\* the stack once the running code has called the store: the calling
\* subscriber has made one more call, and the calls that are notifying have
\* been re-entered
MarkReentered(stk) ==
  [i \in DOMAIN stk |->
     IF stk[i].kind = "mut" THEN [stk[i] EXCEPT !.reent = TRUE]
     ELSE IF i = Len(stk) /\ stk[i].kind = "handler"
          THEN [stk[i] EXCEPT !.calls = @ + 1]
     ELSE IF i = Len(stk) /\ stk[i].kind = "nav"
          THEN [stk[i] EXCEPT !.pc = "emit"]
          ELSE stk[i]]

\* the frame of an update or setState call. before: the tree getState()
\* returned, and subscribers were handed, before the call; held: what that
\* same object holds after the writes of the call; fresh: the call made a
\* new object for `state`
MutFrame(op, path, val, arg, silent, next, held, fresh) ==
  [kind |-> "mut", op |-> op, path |-> path, val |-> val, arg |-> arg,
   silent |-> silent, i |-> 1,
   before |-> state, tree0 |-> next, held |-> held, fresh |-> fresh,
   storage0 |-> storage,
   subs0 |-> Live(entries), cnt |-> [h \in Handlers |-> 0],
   argsok |-> TRUE, reent |-> FALSE, wrote |-> "pending", threw |-> FALSE,
   raised |-> {}]

InitWith(records, builds) ==
  /\ storage \in records
  /\ runtime = STORE_VERSION
  /\ shelf = [k \in StorageKeys \ {StoreKey(STORE_VERSION)} |-> Absent]
  /\ build \in builds
  /\ writer = [k \in StorageKeys |-> 0]
  /\ listeners = NoListeners
  /\ registered = {}
  /\ emits = 0
  /\ handed = {}
  /\ frag = ""
  /\ pending = 0
  /\ display = [p \in PageContainers |-> ""]
  /\ navs = 0
  /\ asked = ""
  /\ total = 0
  /\ painted = NotPainted
  /\ initialState = InitialStateLiteral
  /\ state = LoadState(storage, InitialStateLiteral).tree
  /\ shared = LoadState(storage, InitialStateLiteral).same
  /\ entries = <<>>
  /\ stack = <<>>
  /\ ev = "create"
  /\ ret = NoRet
  /\ dirty = FALSE
  /\ wstat = "none"
  /\ ops = 0
  /\ restarts = 0
  /\ issued = {}
  /\ unsubbed = {}
  /\ everUnsub = {}

\* the page is reloaded: createStore(initialState) on the same localStorage
Restart ==
  /\ stack = <<>>
  /\ restarts < MaxRestarts
  /\ state' = LoadState(storage, initialState).tree
  /\ shared' = LoadState(storage, initialState).same
  /\ entries' = <<>>
  /\ ev' = "create"
  /\ ret' = NoRet
  /\ dirty' = FALSE
  /\ wstat' = "none"
  /\ restarts' = restarts + 1
  /\ issued' = {}
  /\ unsubbed' = {}
  /\ everUnsub' = {}
  /\ UNCHANGED <<initialState, storage, stack, ops>>
  /\ UNCHANGED outside
  /\ UNCHANGED writer

\* the stack after an error has left the call on top of it: a subscriber
\* that made the call is left too, up to the try/catch of notify (line 74)
Unwind(stk) ==
  IF Len(stk) > 1 /\ stk[Len(stk) - 1].kind = "handler"
  THEN SubSeq(stk, 1, Len(stk) - 2)
  ELSE Pop(stk)

\* update(path, value, {silent}), lines 85-94: up to `state = next`
Update(path, value, silent) ==
  /\ CanCall
  /\ LET clone == StructuredClone(state)
         next == WalkAndSet(clone.tree, Split(path), value)
         called == Append(MarkReentered(stack),
                          MutFrame("update", path, value, NoArg, silent, next,
                                   \* lines 87-92 write into `next` only
                                   IF clone.same /\ next # TypeError
                                   THEN next ELSE state,
                                   ~clone.same))
     IN IF next = TypeError
        THEN /\ stack' = Unwind(called)
             /\ ret' = [called[Len(called)] EXCEPT !.threw = TRUE]
             /\ ev' = "threw"
             /\ UNCHANGED <<state, initialState, shared, dirty>>
        ELSE /\ state' = next
             /\ initialState' = IF clone.same /\ shared THEN next ELSE initialState
             /\ shared' = (clone.same /\ shared)
             /\ stack' = called
             /\ ret' = NoRet
             /\ ev' = "assign"
             /\ dirty' = TRUE
  /\ ops' = ops + 1
  /\ UNCHANGED <<storage, entries, wstat, restarts, issued, unsubbed, everUnsub>>
  /\ UNCHANGED outside
  /\ UNCHANGED writer

\* setState(patchOrFn, {silent}), part_006 lines 63-64: up to `state = next`
SetState(arg, silent) ==
  /\ CanCall
  /\ LET next == SetStateNext(arg, state)
         called == Append(MarkReentered(stack),
                          MutFrame("setState", "", Undefined, arg, silent,
                                   next.tree,
                                   \* the spread copies out of `state`; the
                                   \* callers' functions write nothing
                                   state, ~next.same))
     IN IF "setState" \in StoreApi(build)
        THEN /\ state' = next.tree
             /\ shared' = (next.same /\ shared)
             /\ stack' = called
             /\ dirty' = TRUE
             /\ ev' = "assign"
             /\ ret' = NoRet
        ELSE \* store.setState is undefined: the call raises a TypeError
             /\ stack' = Unwind(called)
             /\ ret' = [called[Len(called)] EXCEPT !.threw = TRUE]
             /\ ev' = "threw"
             /\ UNCHANGED <<state, shared, dirty>>
  /\ ops' = ops + 1
  /\ UNCHANGED <<initialState, storage, entries, wstat, restarts, issued,
                 unsubbed, everUnsub>>
  /\ UNCHANGED outside
  /\ UNCHANGED writer

\* persist(), lines 64-70, called at line 95
Persist ==
  /\ stack # <<>>
  /\ Top.kind = "mut"
  /\ Top.i <= Len(MutationSteps)
  /\ MutationSteps[Top.i] = "persist"
  /\ \E written \in BOOLEAN :
       /\ storage' = IF written THEN JsonRecord(Stringify(state)) ELSE storage
       /\ wstat' = IF written THEN "ok" ELSE "failed"
       /\ writer' = IF written THEN [writer EXCEPT ![StoreKey(runtime)] = runtime]
                     ELSE writer
       /\ IF written \/ OnWriteFailure = "caught"
          THEN /\ stack' = [stack EXCEPT ![Len(stack)] =
                              [@ EXCEPT !.i = @ + 1,
                                        !.wrote = IF written THEN "ok" ELSE "failed"]]
               /\ ret' = NoRet
               /\ ev' = "persist"
          ELSE \* the error leaves update; a subscriber that made the call
               \* is left too, up to the try/catch of notify (line 74)
               /\ stack' = Unwind(stack)
               /\ ret' = [Top EXCEPT !.wrote = "failed", !.threw = TRUE]
               /\ ev' = "threw"
  /\ dirty' = FALSE
  /\ UNCHANGED <<state, initialState, shared, entries, ops, restarts, issued,
                 unsubbed, everUnsub>>
  /\ UNCHANGED outside

\* line 96: `if (!silent) notify();`
StartNotify ==
  /\ stack # <<>>
  /\ Top.kind = "mut"
  /\ Top.i <= Len(MutationSteps)
  /\ MutationSteps[Top.i] = "notify"
  /\ stack' = IF ShouldNotify(Top.silent)
              THEN Append([stack EXCEPT ![Len(stack)].i = @ + 1],
                          [kind |-> "notify", idx |-> 0])
              ELSE [stack EXCEPT ![Len(stack)].i = @ + 1]
  /\ ev' = "step"
  /\ ret' = NoRet
  /\ UNCHANGED <<state, initialState, shared, storage, entries, dirty, wstat,
                 ops, restarts, issued, unsubbed, everUnsub>>
  /\ UNCHANGED outside
  /\ UNCHANGED writer

\* line 97: update/setState returns to its caller
Return ==
  /\ stack # <<>>
  /\ Top.kind = "mut"
  /\ Top.i > Len(MutationSteps)
  /\ stack' = Pop(stack)
  /\ ret' = Top
  /\ ev' = "return"
  /\ UNCHANGED <<state, initialState, shared, storage, entries, dirty, wstat,
                 ops, restarts, issued, unsubbed, everUnsub>>
  /\ UNCHANGED outside
  /\ UNCHANGED writer

\* notify, lines 73-74: forEach reaches the next subscriber and calls fn(state)
Invoke ==
  /\ stack # <<>>
  /\ Top.kind = "notify"
  /\ NextSlot(entries, Top.idx) # 0
  /\ LET j == NextSlot(entries, Top.idx)
         n == Len(stack)
     IN stack' = Append([stack EXCEPT
                           ![n].idx = j,
                           ![n - 1].cnt[entries[j]] = @ + 1,
                           ![n - 1].argsok = (@ /\ state = stack[n - 1].tree0)],
                        [kind |-> "handler", fn |-> entries[j], arg |-> state,
                         calls |-> 0])
  /\ ev' = "invoke"
  /\ ret' = NoRet
  /\ UNCHANGED <<state, initialState, shared, storage, entries, dirty, wstat,
                 ops, restarts, issued, unsubbed, everUnsub>>
  /\ UNCHANGED outside
  /\ UNCHANGED writer

\* notify, lines 73-76: forEach has no subscriber left
NotifyDone ==
  /\ stack # <<>>
  /\ Top.kind = "notify"
  /\ NextSlot(entries, Top.idx) = 0
  /\ stack' = Pop(stack)
  /\ entries' = Settle(entries, Pop(stack))
  /\ ev' = "step"
  /\ ret' = NoRet
  /\ UNCHANGED <<state, initialState, shared, storage, dirty, wstat, ops,
                 restarts, issued, unsubbed, everUnsub>>
  /\ UNCHANGED outside
  /\ UNCHANGED writer

\* line 74: the subscriber returns
HandlerReturn ==
  /\ stack # <<>>
  /\ Top.kind = "handler"
  /\ stack' = Pop(stack)
  /\ ev' = "step"
  /\ ret' = NoRet
  /\ UNCHANGED <<state, initialState, shared, storage, entries, dirty, wstat,
                 ops, restarts, issued, unsubbed, everUnsub>>
  /\ UNCHANGED outside
  /\ UNCHANGED writer

\* line 74: the subscriber throws; notify catches and logs the error
HandlerThrow ==
  /\ stack # <<>>
  /\ Top.kind = "handler"
  /\ LET n == Len(stack)
     IN IF OnSubscriberError = "caught"
        THEN /\ stack' = Pop([stack EXCEPT ![n - 2].raised = @ \cup {Top.fn}])
             /\ entries' = entries
             /\ ev' = "step"
             /\ ret' = NoRet
        ELSE \* nothing catches: the error leaves every call on the stack
             /\ stack' = <<>>
             /\ entries' = Compact(entries)
             /\ ev' = "threw"
             /\ ret' = [stack[n - 2] EXCEPT !.threw = TRUE,
                                            !.raised = @ \cup {Top.fn}]
  /\ UNCHANGED <<state, initialState, shared, storage, dirty, wstat,
                 ops, restarts, issued, unsubbed, everUnsub>>
  /\ UNCHANGED outside
  /\ UNCHANGED writer

\* subscribe(fn), lines 98-101
Subscribe(fn) ==
  /\ CanCall
  /\ IF fn \in Live(entries) THEN TRUE ELSE Len(entries) < MaxEntries
  /\ entries' = SetAdd(entries, fn)
  /\ stack' = MarkReentered(stack)
  /\ issued' = issued \cup {fn}
  /\ unsubbed' = unsubbed \ {fn}
  /\ ev' = "step"
  /\ ret' = NoRet
  /\ UNCHANGED <<state, initialState, shared, storage, dirty, wstat, ops,
                 restarts, everUnsub>>
  /\ UNCHANGED outside
  /\ UNCHANGED writer

\* the function subscribe(fn) returned is called, line 100
Unsubscribe(fn) ==
  /\ CanCall
  /\ fn \in issued
  /\ entries' = Settle(SetDelete(entries, fn), stack)
  /\ stack' = MarkReentered(stack)
  /\ unsubbed' = unsubbed \cup {fn}
  /\ everUnsub' = everUnsub \cup {fn}
  /\ ev' = "step"
  /\ ret' = NoRet
  /\ UNCHANGED <<state, initialState, shared, storage, dirty, wstat, ops,
                 restarts, issued>>
  /\ UNCHANGED outside
  /\ UNCHANGED writer

\* a run with subscribers, on a first visit (nothing stored yet)
Init == InitWith({Absent}, {Part006}) /\ IdleStats /\ IdlePractice /\ IdleTheme

Next ==
  \/ \E path \in Paths, value \in Values, silent \in BOOLEAN :
       ops < MaxOps /\ Update(path, value, silent)
  \/ \E silent \in BOOLEAN : ops < MaxOps /\ SetState(PatchTheme, silent)
  \/ Persist
  \/ StartNotify
  \/ Return
  \/ Invoke
  \/ NotifyDone
  \/ HandlerReturn
  \/ HandlerThrow
  \/ \E fn \in Handlers : Subscribe(fn)
  \/ \E fn \in Handlers : Unsubscribe(fn)

Spec == Init /\ [][Next]_vars

\* a run without subscribers: every path and value, any stored record, reloads
InitTree == InitWith(InitialRecords, Builds) /\ IdleStats /\ IdlePractice /\ IdleTheme

NextTree ==
  \/ \E path \in TreePaths, value \in TreeValues, silent \in BOOLEAN :
       ops < MaxTreeOps /\ Update(path, value, silent)
  \/ \E arg \in SetStateArgs, silent \in BOOLEAN :
       ops < MaxTreeOps /\ SetState(arg, silent)
  \/ Persist
  \/ StartNotify
  \/ NotifyDone
  \/ Return
  \/ Restart

SpecTree == InitTree /\ [][NextTree]_vars

\* A page load under a runtime of version v (a deployment that bumped
\* STORE_VERSION, or the same runtime again): createStore(initialState) reads
\* localStorage under that runtime's STORE_KEY, lines 22-23 and 55-62
Deploy(v) ==
  /\ stack = <<>>
  /\ restarts < MaxDeploys
  /\ LET all == [k \in StorageKeys |->
                   IF k = StoreKey(runtime) THEN storage ELSE shelf[k]]
         key == StoreKey(v)
         loaded == LoadState(all[key], InitialStateOf(v))
     IN /\ storage' = all[key]
        /\ shelf' = [k \in StorageKeys \ {key} |-> all[k]]
        /\ initialState' = InitialStateOf(v)
        /\ state' = loaded.tree
        /\ shared' = loaded.same
  /\ runtime' = v
  /\ entries' = <<>>
  /\ ev' = "create"
  /\ ret' = NoRet
  /\ dirty' = FALSE
  /\ wstat' = "none"
  /\ restarts' = restarts + 1
  /\ issued' = {}
  /\ unsubbed' = {}
  /\ everUnsub' = {}
  /\ UNCHANGED <<stack, ops, build, writer, listeners, registered, emits,
                 handed, domVars, paletteVars, statsVars,
                 practiceVars, themeVars>>

\* what the callers pass in a run with runtimes of several versions
VersionPaths == {"ui.page", "version"}
VersionValues == {Num("2")}

NextVersion ==
  \/ \E path \in VersionPaths, value \in VersionValues, silent \in BOOLEAN :
       ops < MaxVersionOps /\ Update(path, value, silent)
  \/ Persist
  \/ StartNotify
  \/ Return
  \/ \E v \in Versions : Deploy(v)

SpecVersion == Init /\ [][NextVersion]_vars

(* --------------------------- event bus calls -------------------------- *)
\* code outside the bus, or a callback that emit is invoking, is running
BusCanCall ==
  IF stack = <<>> THEN TRUE
  ELSE IF Top.kind = "cb" THEN Top.calls < MaxHandlerCalls
  ELSE IF Top.kind = "nav" THEN Top.pc \in {"emit", "ready"} ELSE FALSE
\* the stack once the running code has called the bus
BusMark(stk) ==
  [i \in DOMAIN stk |->
     IF stk[i].kind = "emit" THEN [stk[i] EXCEPT !.reent = TRUE]
     ELSE IF i = Len(stk) /\ stk[i].kind = "cb"
          THEN [stk[i] EXCEPT !.calls = @ + 1]
     ELSE IF i = Len(stk) /\ stk[i].kind = "nav"
          THEN [stk[i] EXCEPT !.pc = IF @ = "emit" THEN "emitted" ELSE "end"]
          ELSE stk[i]]
\* an emit of event is iterating
HasEmit(stk, event) ==
  \E i \in DOMAIN stk : stk[i].kind = "emit" /\ stk[i].event = event
\* the empty slots of a Set nobody iterates cannot be observed
BusSettle(ls, stk) ==
  [ls EXCEPT !.sets = [e \in Events |->
                         IF HasEmit(stk, e) THEN ls.sets[e]
                         ELSE Compact(ls.sets[e])]]
EmitFrame(event, payload) ==
  [kind |-> "emit", event |-> event, payload |-> payload, idx |-> 0,
   subs0 |-> Registered(listeners, event), cnt |-> [c \in Callbacks |-> 0],
   removed |-> {}, raised |-> {}, reent |-> FALSE, threw |-> FALSE]

\* on(event, cb), lines 31-35
On(event, cb) ==
  /\ BusCanCall
  /\ IF cb \in Live(listeners.sets[event]) THEN TRUE
     ELSE Len(listeners.sets[event]) < MaxEntries
  /\ listeners' = BusOn(listeners, event, cb)
  /\ registered' = registered \cup {<<event, cb>>}
  /\ handed' = handed \cup {<<event, cb>>}
  /\ stack' = BusMark(stack)
  /\ ev' = "step"
  /\ ret' = NoRet
  /\ UNCHANGED <<storeVars, emits>>

\* the body of off(event, cb), lines 36-39; the emits that are iterating
\* note the callbacks taken from them
OffBody(event, cb) ==
  /\ BusCanCall
  /\ LET after == BusOff(listeners, event, cb)
     IN /\ listeners' = BusSettle(after, stack)
        /\ stack' = [i \in DOMAIN stack |->
                       IF BusMark(stack)[i].kind = "emit"
                       THEN [BusMark(stack)[i] EXCEPT !.removed =
                               @ \cup (Registered(listeners, stack[i].event)
                                        \ Registered(after, stack[i].event))]
                       ELSE BusMark(stack)[i]]
  /\ registered' = registered \ {<<event, cb>>}
  /\ ev' = "step"
  /\ ret' = NoRet
  /\ UNCHANGED <<storeVars, emits, handed>>

\* off(event, cb) called directly, with any event and callback
Off(event, cb) == OffBody(event, cb)

\* the function on(event, cb) returned is called, line 34
Unregister(event, cb) ==
  /\ <<event, cb>> \in handed
  /\ OffBody(event, cb)

\* emit(event, payload), lines 40-42: returns at once when the Map has no
\* Set for the event, else starts iterating the Set
Emit(event, payload) ==
  /\ BusCanCall
  /\ emits' = emits + 1
  /\ IF Has(listeners, event)
     THEN /\ stack' = Append(BusMark(stack), EmitFrame(event, payload))
          /\ ev' = "step"
          /\ ret' = NoRet
     ELSE /\ stack' = BusMark(stack)
          /\ ev' = "emitted"
          /\ ret' = EmitFrame(event, payload)
  /\ UNCHANGED <<storeVars, listeners, registered, handed>>

\* emit, lines 42-43: the iterator yields the next callback; cb(payload)
Call ==
  /\ stack # <<>>
  /\ Top.kind = "emit"
  /\ NextSlot(listeners.sets[Top.event], Top.idx) # 0
  /\ LET es == listeners.sets[Top.event]
         j == NextSlot(es, Top.idx)
         n == Len(stack)
     IN stack' = Append([stack EXCEPT ![n].idx = j, ![n].cnt[es[j]] = @ + 1],
                        [kind |-> "cb", fn |-> es[j], event |-> Top.event,
                         arg |-> Top.payload, calls |-> 0])
  /\ ev' = "call"
  /\ ret' = NoRet
  /\ UNCHANGED <<storeVars, listeners, registered, emits, handed>>

\* emit, lines 42-45: the iterator is exhausted, emit returns
EmitDone ==
  /\ stack # <<>>
  /\ Top.kind = "emit"
  /\ NextSlot(listeners.sets[Top.event], Top.idx) = 0
  /\ stack' = Pop(stack)
  /\ listeners' = BusSettle(listeners, Pop(stack))
  /\ ev' = "emitted"
  /\ ret' = Top
  /\ UNCHANGED <<storeVars, registered, emits, handed>>

\* line 43: the callback returns
CbReturn ==
  /\ stack # <<>>
  /\ Top.kind = "cb"
  /\ stack' = Pop(stack)
  /\ ev' = "step"
  /\ ret' = NoRet
  /\ UNCHANGED <<storeVars, listeners, registered, emits, handed>>

\* line 43: the callback throws; emit catches and logs the error
CbThrow ==
  /\ stack # <<>>
  /\ Top.kind = "cb"
  /\ LET n == Len(stack)
     IN IF OnListenerError = "caught"
        THEN /\ stack' = Pop([stack EXCEPT ![n - 1].raised = @ \cup {Top.fn}])
             /\ listeners' = listeners
             /\ ev' = "step"
             /\ ret' = NoRet
        ELSE \* nothing catches: the error leaves every call on the stack
             /\ stack' = <<>>
             /\ listeners' = BusSettle(listeners, <<>>)
             /\ ev' = "threw"
             /\ ret' = [stack[n - 1] EXCEPT !.threw = TRUE,
                                            !.raised = @ \cup {Top.fn}]
  /\ UNCHANGED <<storeVars, registered, emits, handed>>

\* what the callers of the bus pass
Payloads == {Str("stats")}

NextBus ==
  \/ \E event \in Events, cb \in Callbacks : On(event, cb)
  \/ \E event \in Events, cb \in Callbacks : Off(event, cb)
  \/ \E event \in Events, cb \in Callbacks : Unregister(event, cb)
  \/ \E event \in Events, payload \in Payloads :
       emits < MaxEmits /\ Emit(event, payload)
  \/ Call
  \/ EmitDone
  \/ CbReturn
  \/ CbThrow

SpecBus == Init /\ [][NextBus]_vars

(* ------------------------------ router calls -------------------------- *)
\* navigateTo(id), lines 165-169: the id is resolved, the fragment is set
\* when it differs (which queues a hashchange event when the address
\* changes), and showPage toggles the containers; `queued` is the number of
\* hashchange events waiting when the call starts
StartNav(id, boot, queued) ==
  LET r == IF Falsy(id) THEN Home ELSE id
      after == IF GetHash(frag) # "#" \o r THEN SetHash(r) ELSE frag
  IN /\ frag' = after
     /\ pending' = IF after # frag THEN queued + 1 ELSE queued
     /\ display' = ShowPage(display, r)
     /\ stack' = <<[kind |-> "nav", raw |-> id, id |-> r, pc |-> "update",
                    boot |-> boot]>>
     /\ ev' = "step"
     /\ ret' = NoRet
     /\ UNCHANGED <<state, initialState, shared, storage, entries, dirty,
                    wstat, ops, restarts, issued, unsubbed, everUnsub, runtime,
                    shelf, build, writer, listeners, registered, emits, handed,
                    paletteVars, statsVars,
                 practiceVars, themeVars>>

\* lines 191-202: the router boots on the fragment the address holds
Boot ==
  /\ stack = <<>>
  /\ navs = 0
  /\ asked = ""
  /\ navs' = 1
  /\ asked' = HashId(frag)
  /\ StartNav(HashId(frag), TRUE, pending)

\* navigateTo(id) called by the application, or by the click handler of a
\* [data-nav] element (lines 205-213)
NavigateTo(id) ==
  /\ stack = <<>>
  /\ navs > 0
  /\ navs < MaxNavs
  /\ navs' = navs + 1
  /\ asked' = IF Falsy(id) THEN Home ELSE id
  /\ StartNav(id, FALSE, pending)

\* a queued hashchange event is dispatched: handleHashChange, lines 174-177
HashChange ==
  /\ stack = <<>>
  /\ navs > 0
  /\ pending > 0
  /\ navs' = navs
  /\ asked' = asked
  /\ StartNav(HashId(frag), FALSE, pending - 1)

\* the user changes the fragment in the address bar (or goes back)
EditFragment(f) ==
  /\ stack = <<>>
  /\ navs > 0
  /\ navs < MaxNavs
  /\ f # frag
  /\ frag' = f
  /\ pending' = pending + 1
  /\ navs' = navs + 1
  /\ asked' = HashId(f)
  /\ ev' = "step"
  /\ ret' = NoRet
  /\ UNCHANGED <<state, initialState, shared, storage, entries, stack, dirty,
                 wstat, ops, restarts, issued, unsubbed, everUnsub, runtime,
                 shelf, build, writer, listeners, registered, emits, handed,
                 display, paletteVars, statsVars,
                 practiceVars, themeVars>>

\* line 170: store.update('ui.page', id, { silent: true })
NavStore ==
  /\ stack # <<>>
  /\ Top.kind = "nav"
  /\ Update("ui.page", Str(Top.id), NavOptions.silent)

\* line 171: bus.emit('route:change', id)
NavEmit ==
  /\ stack # <<>>
  /\ Top.kind = "nav"
  /\ Top.pc = "emit"
  /\ Emit("route:change", Str(Top.id))

\* line 172: navigateTo returns (at boot: into the boot code)
NavReturn ==
  /\ stack # <<>>
  /\ Top.kind = "nav"
  /\ Top.pc = "emitted"
  /\ stack' = IF Top.boot THEN <<[Top EXCEPT !.pc = "ready"]>> ELSE Pop(stack)
  /\ ev' = "navigated"
  /\ ret' = Top
  /\ UNCHANGED <<storeVars, listeners, registered, emits, handed>>

\* lines 196 and 201: bus.emit('app:ready')
BootReady ==
  /\ stack # <<>>
  /\ Top.kind = "nav"
  /\ Top.pc = "ready"
  /\ Emit("app:ready", Undefined)

\* the boot code returns
BootDone ==
  /\ stack # <<>>
  /\ Top.kind = "nav"
  /\ Top.pc = "end"
  /\ stack' = Pop(stack)
  /\ ev' = "step"
  /\ ret' = NoRet
  /\ UNCHANGED <<storeVars, listeners, registered, emits, handed>>

\* the application switches the theme: a mutation that is not the router's
ThemeUpdate ==
  /\ stack = <<>>
  /\ navs > 0
  /\ GetPath(state, <<"ui", "theme">>) = Str("auto")
  /\ Update("ui.theme", Str("dark"), FALSE)

\* what navigateTo is called with
NavIds == {"", "stats", "nowhere", "my page"}
\* the fragment of the address the page is opened with, or edited to
OpenFragments == {"", "stats"}
\* the callbacks the pages registered on the bus before the router boots
BootListeners ==
  {NoListeners, BusOn(NoListeners, "route:change", "c1"),
   BusOn(BusOn(NoListeners, "route:change", "c1"), "app:ready", "c2")}

\* lines 180-189: the bus and the store are created and the theme
\* subscriber ("h1") is subscribed; the router has not booted yet
InitRouter ==
  /\ storage \in {Absent, JsonRecord(Stringify(InitialStateLiteral))}
  /\ initialState = InitialStateLiteral
  /\ state = LoadState(storage, InitialStateLiteral).tree
  /\ shared = LoadState(storage, InitialStateLiteral).same
  /\ entries = SetAdd(<<>>, "h1")
  /\ issued = {"h1"}
  /\ unsubbed = {}
  /\ everUnsub = {}
  /\ stack = <<>>
  /\ ev = "create"
  /\ ret = NoRet
  /\ dirty = FALSE
  /\ wstat = "none"
  /\ ops = 0
  /\ restarts = 0
  /\ runtime = STORE_VERSION
  /\ shelf = [k \in StorageKeys \ {StoreKey(STORE_VERSION)} |-> Absent]
  /\ build = AppCore
  /\ writer = [k \in StorageKeys |-> 0]
  /\ listeners \in BootListeners
  /\ registered = {<<e, c>> \in Events \X Callbacks : c \in Registered(listeners, e)}
  /\ handed = registered
  /\ emits = 0
  /\ frag \in OpenFragments
  /\ pending = 0
  /\ display = [p \in PageContainers |-> ""]
  /\ navs = 0
  /\ asked = ""
  /\ total = 0
  /\ painted = NotPainted
  /\ IdleStats /\ IdlePractice /\ IdleTheme

NextRouter ==
  \/ Boot
  \/ \E id \in NavIds : NavigateTo(id)
  \/ HashChange
  \/ \E f \in OpenFragments : EditFragment(f)
  \/ NavStore
  \/ NavEmit
  \/ NavReturn
  \/ BootReady
  \/ BootDone
  \/ ThemeUpdate
  \/ Persist
  \/ StartNotify
  \/ Return
  \/ Invoke
  \/ NotifyDone
  \/ HandlerReturn
  \/ HandlerThrow
  \/ Call
  \/ EmitDone
  \/ CbReturn
  \/ CbThrow

SpecRouter == InitRouter /\ [][NextRouter]_vars

(* ----------------------------- palette calls -------------------------- *)
\* app-core.js line 392: an entry's score is added to the sum of its hour
AddEntry(score) ==
  /\ Abs(total + score) <= MaxTotal
  /\ total' = total + score
  /\ UNCHANGED <<state, initialState, shared, storage, entries, dirty, wstat,
                 ops, restarts, issued, unsubbed, everUnsub, runtime, shelf,
                 build, writer, domVars, stack, ev, ret, listeners,
                 registered, emits, handed, painted, statsVars,
                 practiceVars, themeVars>>

\* app-core.js lines 442-445: the bar of the hour is painted with
\* Palette.moodColor(total)
Paint ==
  /\ painted' = [x |-> total, idx |-> BucketIndex(total),
                 color |-> MoodColor(total)]
  /\ UNCHANGED <<state, initialState, shared, storage, entries, dirty, wstat,
                 ops, restarts, issued, unsubbed, everUnsub, runtime, shelf,
                 build, writer, domVars, stack, ev, ret, listeners,
                 registered, emits, handed, total, statsVars,
                 practiceVars, themeVars>>

\* the scores of the entries
EntryScores == {-50, -10, -1, 1, 10, 50}

NextPalette ==
  \/ \E score \in EntryScores : AddEntry(score)
  \/ Paint

SpecPalette == Init /\ [][NextPalette]_vars

(* --------------------------- statistics calls ------------------------- *)
\* (mutant) the zero-score entries are counted in the denominator
ConsideredAll(posCnt, negCnt, zeroCnt) == posCnt + negCnt + zeroCnt

\* line 297: the denominator of the shares
Considered(posCnt, negCnt, zeroCnt) == posCnt + negCnt

\* lines 289-294: the entries of one day are counted into the running sums
RECURSIVE CountEntries(_, _)
CountEntries(arr, acc) ==
  IF arr = <<>> THEN acc
  ELSE LET v == OrZero(Head(arr).score)
       IN CountEntries(Tail(arr),
            IF v > 0 THEN [acc EXCEPT !.posCnt = @ + 1, !.posSum = @ + v]
            ELSE IF v < 0 THEN [acc EXCEPT !.negCnt = @ + 1, !.negSum = @ + v]
            ELSE [acc EXCEPT !.zeroCnt = @ + 1])

\* lines 285-295: the loop over the date keys
RECURSIVE CountDays(_, _, _)
CountDays(data, dateKeys, acc) ==
  IF dateKeys = <<>> THEN acc
  ELSE LET arr == DayEntries(data, Head(dateKeys))
           day == [acc EXCEPT
                     !.activeDays = IF NonZero(Len(arr)) THEN @ + 1 ELSE @,
                     !.total = @ + Len(arr)]
       IN CountDays(data, Tail(dateKeys), CountEntries(arr, day))

\* line 282-283: the counters at the start
ZeroCounts ==
  [total |-> 0, zeroCnt |-> 0, activeDays |-> 0, posCnt |-> 0, negCnt |-> 0,
   posSum |-> 0, negSum |-> 0]

\* aggregateRange, lines 281-308: the object it returns
AggregateRangeOf(data, dateKeys) ==
  LET c == CountDays(data, dateKeys, ZeroCounts)
      considered == Considered(c.posCnt, c.negCnt, c.zeroCnt)
      positiveShare ==
        IF NonZero(considered) THEN RoundPercent(Ratio(c.posCnt, considered))
        ELSE Exact(0)
      negativeShare ==
        IF NonZero(considered)
        THEN [n |-> 100 - positiveShare.n, nan |-> positiveShare.nan]
        ELSE Exact(0)
  IN [totalEntries |-> c.total,
      zeroEntries |-> c.zeroCnt,
      activeDays |-> c.activeDays,
      entriesPerDay |-> IF NonZero(c.activeDays)
                        THEN Ratio(c.total, c.activeDays) ELSE Ratio(0, 1),
      positiveShare |-> positiveShare,
      negativeShare |-> negativeShare,
      balanceSum |-> c.posSum + c.negSum]

\* a call of aggregateRange (from buildOverallStatsHTML, line 311)
AggregateRange(dateKeys) ==
  /\ statsCall' = [fn |-> "aggregateRange", dateKeys |-> dateKeys,
                   result |-> AggregateRangeOf(moodData, dateKeys)]
  /\ UNCHANGED <<state, initialState, shared, storage, entries, dirty,
                 wstat, ops, restarts, issued, unsubbed, everUnsub,
                 runtime, shelf, build, writer, domVars, paletteVars,
                 moodData, hourlyChart, stack, ev, ret, listeners,
                 registered, emits, handed, practiceVars, themeVars>>

\* (mutant) a bucket keeps the score of its last entry
AddScoreLast(sum, v) == v

\* line 392: hourlyTotals[h] += v
AddScore(sum, v) == sum + v

\* lines 386-388: the arrays before the loop
EmptyBuckets ==
  [threw |-> FALSE,
   hourlyTotals |-> [h \in Hours |-> 0],
   hourHasData |-> [h \in Hours |-> FALSE],
   hourlyEntriesList |-> [h \in Hours |-> <<>>]]

\* lines 389-395: the loop over today's entries. For an h outside 0..23
\* hourlyEntriesList[h] is undefined and its push raises a TypeError.
RECURSIVE BucketLoop(_, _)
BucketLoop(es, acc) ==
  IF es = <<>> THEN acc
  ELSE LET e == Head(es)
           h == OrZero(e.hour)
           v == OrZero(e.score)
       IN IF h \in Hours
          THEN BucketLoop(Tail(es),
                 [acc EXCEPT !.hourlyTotals[h] = AddScore(@, v),
                             !.hourHasData[h] = TRUE,
                             !.hourlyEntriesList[h] = Append(@, e)])
          ELSE [acc EXCEPT !.threw = TRUE]

\* line 398: entries.reduce((s, e) => s + (Number(e.score) || 0), 0)
RECURSIVE SumScores(_)
SumScores(es) ==
  IF es = <<>> THEN 0 ELSE SumScores(Tail(es)) + OrZero(Head(es).score)

\* (mutant) a later hour with the same magnitude replaces the peak
PeakBeatsOrTies(v, peakVal) == Abs(v) >= Abs(peakVal)

\* line 401: Math.abs(v) > Math.abs(peakVal)
PeakBeats(v, peakVal) == Abs(v) > Abs(peakVal)
\* line 400: peakHour = null
NoHour == -1
\* line 401: hourlyTotals.forEach, from hour h on
RECURSIVE PeakScan(_, _, _)
PeakScan(totals, h, peak) ==
  IF h \notin Hours THEN peak
  ELSE PeakScan(totals, h + 1,
         IF PeakBeats(totals[h], peak.peakVal)
         THEN [peakHour |-> h, peakVal |-> totals[h]] ELSE peak)

\* line 408: avg.toFixed(1), in tenths (a tie goes away from zero)
ToFixed1(q) ==
  IF IsNaN(q) THEN [n |-> 0, nan |-> TRUE]
  ELSE LET tenths == (20 * Abs(q.num) + q.den) \div (2 * q.den)
       IN Exact(IF q.num < 0 THEN -tenths ELSE tenths)

\* (mutant) a bar has data when its sum is not 0
BarHasDataNonZero(hourHasData, hourlyTotals, h) == hourlyTotals[h] # 0

\* lines 443, 447: hourHasData[h]
BarHasData(hourHasData, hourlyTotals, h) == hourHasData[h]
\* lines 443, 447: the style of an hour without entries
NoDataFill(isDark) ==
  IF isDark THEN "rgba(255,255,255,0.08)" ELSE "rgba(0,0,0,0.08)"
NoDataBorder(isDark) ==
  IF isDark THEN "rgba(255,255,255,0.25)" ELSE "rgba(0,0,0,0.25)"
\* lines 444, 448: Palette.moodColor(total) || (total >= 0 ? ... : ...)
DataColor(t) ==
  IF MoodColor(t) = "undefined"
  THEN (IF t >= 0 THEN "#22c55e" ELSE "#3b82f6")
  ELSE MoodColor(t)
\* lines 436-452: the chart made from the buckets
ChartOf(b, isDark) ==
  [drawn |-> TRUE,
   data |-> b.hourlyTotals,
   backgroundColor |->
     [h \in Hours |-> IF BarHasData(b.hourHasData, b.hourlyTotals, h)
                      THEN DataColor(b.hourlyTotals[h]) ELSE NoDataFill(isDark)],
   borderColor |->
     [h \in Hours |-> IF BarHasData(b.hourHasData, b.hourlyTotals, h)
                      THEN DataColor(b.hourlyTotals[h])
                      ELSE NoDataBorder(isDark)],
   borderWidth |->
     [h \in Hours |-> IF b.hourHasData[h] THEN 0 ELSE 1]]

\* renderTodayHourlyChart, lines 382-452. canDraw: Chart.js is loaded and
\* the canvas exists (lines 413, 434); isDark: the theme (line 428).
RenderTodayHourlyChart(canDraw, isDark) ==
  LET es == DayEntries(moodData, TodayKey)
      b == BucketLoop(es, EmptyBuckets)
      totalSum == SumScores(es)
      avg == IF NonZero(Len(es)) THEN Ratio(totalSum, Len(es)) ELSE Ratio(0, 1)
      peak == PeakScan(b.hourlyTotals, 0, [peakHour |-> NoHour, peakVal |-> 0])
  IN /\ statsCall' =
          IF b.threw
          THEN [fn |-> "renderTodayHourlyChart", threw |-> TRUE]
          ELSE [fn |-> "renderTodayHourlyChart", threw |-> FALSE,
                entries |-> es,
                hourlyTotals |-> b.hourlyTotals,
                hourHasData |-> b.hourHasData,
                hourlyEntriesList |-> b.hourlyEntriesList,
                totalSum |-> totalSum, avg |-> avg,
                peakHour |-> peak.peakHour, peakVal |-> peak.peakVal,
                aggAvg |-> ToFixed1(avg)]
     /\ hourlyChart' = IF ~b.threw /\ canDraw THEN ChartOf(b, isDark)
                       ELSE hourlyChart
     /\ UNCHANGED <<state, initialState, shared, storage, entries, dirty,
                    wstat, ops, restarts, issued, unsubbed, everUnsub,
                    runtime, shelf, build, writer, domVars, paletteVars,
                    moodData, stack, ev, ret, listeners, registered, emits,
                    handed, practiceVars, themeVars>>

\* closeStatsModal, lines 243-255
CloseStatsModal ==
  /\ hourlyChart' = NoChart
  /\ UNCHANGED <<state, initialState, shared, storage, entries, dirty,
                 wstat, ops, restarts, issued, unsubbed, everUnsub,
                 runtime, shelf, build, writer, domVars, paletteVars,
                 moodData, statsCall, stack, ev, ret, listeners, registered,
                 emits, handed, practiceVars, themeVars>>

\* the entries of a day: well-formed ones, and ones whose hour is missing,
\* not a number, or outside 0..23
HourInputs == {JsNumber(9), JsNumber(14)}
ScoreInputs == {JsNumber(-5), JsNumber(10), JsNumber(30)}
EntryInputs ==
  [hour : HourInputs, score : ScoreInputs] \cup
  {[hour |-> JsNumber(9), score |-> JsNumber(0)],
   [hour |-> JsUndefined, score |-> JsNumber(10)],
   [hour |-> JsText, score |-> JsNumber(-5)],
   [hour |-> JsNumber(HourCount), score |-> JsNumber(10)]}
\* the arrays of the current day and of the earlier day
TodayInputs ==
  {NoDay} \cup {Day(arr) : arr \in UNION {[1..n -> EntryInputs] :
                                           n \in 0..MaxDayEntries}}
EarlierInputs ==
  {NoDay, Day(<<>>), Day(<<[hour |-> JsNumber(9), score |-> JsText]>>),
   Day(<<[hour |-> JsText, score |-> JsNumeral(20)]>>)}
\* the arrays of date keys passed to aggregateRange
DateKeyInputs == {<<>>, <<EarlierKey>>, <<TodayKey>>, <<EarlierKey, TodayKey>>}

InitStats ==
  /\ InitWith({Absent}, {AppCore})
  /\ \E t \in TodayInputs, y \in EarlierInputs :
       moodData = [k \in DateKeys |-> IF k = TodayKey THEN t ELSE y]
  /\ statsCall = NoCall
  /\ hourlyChart = NoChart
  /\ IdlePractice
  /\ IdleTheme

NextStats ==
  \/ \E dateKeys \in DateKeyInputs : AggregateRange(dateKeys)
  \/ \E canDraw \in BOOLEAN, isDark \in BOOLEAN :
       RenderTodayHourlyChart(canDraw, isDark)
  \/ CloseStatsModal

SpecStats == InitStats /\ [][NextStats]_vars

(* ------------------------ practice engine calls ----------------------- *)
\* the engine and the host's timers as one value, for the functions that
\* call one another
Engine ==
  [timer |-> timer, practice |-> practice, scheduled |-> scheduled,
   handles |-> handles, panel |-> panel, stops |-> stops]

\* line 40: if (timer) clearInterval(timer)
StopClears(timers, id) == IF id # 0 THEN ClearInterval(timers, id) ELSE timers

\* stop, lines 38-42
StopOf(m) ==
  [m EXCEPT !.practice.running = FALSE,
            !.scheduled = StopClears(@, m.timer),
            !.timer = 0,
            !.panel.phase = Label("pause", 0, 0),
            !.panel.ring = 0,
            !.stops = @ + 1]

\* (mutant) runPhase installs its interval without clearing the prior one
InstallClearsNothing(timers, id) == timers

\* line 64: if (timer) clearInterval(timer)
InstallClears(timers, id) ==
  IF id # 0 THEN ClearInterval(timers, id) ELSE timers

\* runPhase, lines 54-73, of the closure that holds cfg and i
RunPhaseOf(m, cfg, i) ==
  IF ~m.practice.running THEN m
  ELSE IF i >= Len(cfg.phases)
  THEN [m EXCEPT !.practice.cycle = @ + 1,
                 !.handles = @ + 1,
                 !.scheduled = @ \cup {Timer("runTimerCycle", m.handles + 1,
                                             cfg, 0, 0, 0, m.stops)}]
  ELSE LET seconds == cfg.phases[i + 1]
       IN [m EXCEPT
             !.panel.phase = Label("phase", i, m.practice.cycle + 1),
             !.panel.time = Time("", seconds),
             !.panel.ring = 0,
             !.handles = @ + 1,
             !.timer = m.handles + 1,
             !.scheduled = InstallClears(@, m.timer) \cup
                            {Timer("interval", m.handles + 1, cfg, i + 1,
                                   seconds, seconds, m.stops)}]

\* runTimerCycle, lines 45-75. With a steps practice as state.cfg,
\* cfg.phases is undefined and runPhase raises a TypeError before any effect.
RunTimerCycleOf(m) ==
  IF ~m.practice.running THEN m
  ELSE IF m.practice.cycle >= CyclesOf(m.practice.cfg)
  THEN [m EXCEPT !.panel.phase = Label("done", 0, 0),
                 !.panel.time = Time("", 0),
                 !.panel.ring = 360]
  ELSE IF m.practice.cfg.type # "timer" THEN m
  ELSE RunPhaseOf(m, m.practice.cfg, 0)

\* showStep, lines 78-90. With a timer practice as state.cfg, cfg.steps is
\* undefined and showStep raises a TypeError before any effect.
ShowStepOf(m) ==
  IF ~m.practice.running THEN m
  ELSE IF m.practice.cfg.type # "steps" THEN m
  ELSE IF m.practice.step >= m.practice.cfg.steps
  THEN [m EXCEPT !.panel.phase = Label("done", 0, 0),
                 !.panel.time = Time("", 0),
                 !.panel.ring = 360]
  ELSE [m EXCEPT !.panel.phase = Label("step", m.practice.step + 1, 0),
                 !.panel.time = Time("-", 0),
                 !.panel.ring = 0,
                 !.panel.startBtn = "next"]

\* start, lines 30-36
StartOf(m) ==
  LET stopped == StopOf(m)
      on == [stopped EXCEPT !.practice.running = TRUE]
  IN IF on.practice.cfg.type = "timer"
     THEN RunTimerCycleOf([on EXCEPT !.practice.cycle = 0])
     ELSE IF on.practice.cfg.type = "steps"
     THEN ShowStepOf([on EXCEPT !.practice.step = 0])
     ELSE on

\* the engine after a call, and the callback the step ran
Becomes(m, callback) ==
  /\ timer' = m.timer
  /\ practice' = m.practice
  /\ scheduled' = m.scheduled
  /\ handles' = m.handles
  /\ panel' = m.panel
  /\ stops' = m.stops
  /\ fired' = callback
  /\ UNCHANGED <<state, initialState, shared, storage, entries, dirty,
                 wstat, ops, restarts, issued, unsubbed, everUnsub,
                 runtime, shelf, build, writer, domVars, paletteVars,
                 statsVars, themeVars, stack, ev, ret, listeners, registered,
                 emits, handed>>

\* PracticeEngine.openById, lines 4-8, and openModal, lines 14-28
OpenById(id) ==
  /\ opens < MaxOpens
  /\ opens' = opens + 1
  /\ IF \E cfg \in Practices : cfg.id = id
     THEN LET cfg == CHOOSE c \in Practices : c.id = id
          IN Becomes([Engine EXCEPT
                        !.practice = [open |-> TRUE, cfg |-> cfg,
                                      running |-> FALSE, cycle |-> 0,
                                      step |-> 0],
                        !.panel = [hidden |-> FALSE, startBtn |-> "start",
                                   phase |-> Label("ready", 0, 0),
                                   time |-> Time("00", 0), ring |-> 0]],
                      NoCallback)
     ELSE Becomes(Engine, NoCallback)

\* a click on the start button while it calls start (line 22)
Start ==
  /\ ~panel.hidden
  /\ panel.startBtn = "start"
  /\ stops < MaxStops
  /\ UNCHANGED opens
  /\ Becomes(StartOf(Engine), NoCallback)

\* a click on the start button while it advances the steps (line 89)
NextStep ==
  /\ ~panel.hidden
  /\ panel.startBtn = "next"
  /\ practice.step < MaxStep
  /\ UNCHANGED opens
  /\ Becomes(ShowStepOf([Engine EXCEPT !.practice.step = @ + 1]), NoCallback)

\* a click on the stop button (line 23)
Stop ==
  /\ ~panel.hidden
  /\ stops < MaxStops
  /\ UNCHANGED opens
  /\ Becomes(StopOf(Engine), NoCallback)

\* window.closeTherapy, lines 105-109 (before the first openModal `state`
\* is null and stop skips it)
CloseTherapy ==
  /\ stops < MaxStops
  /\ UNCHANGED opens
  /\ Becomes([StopOf(Engine) EXCEPT !.panel.hidden = TRUE], NoCallback)

\* the interval callback, lines 65-72
Tick(t) ==
  /\ t \in scheduled
  /\ t.kind = "interval"
  /\ UNCHANGED opens
  /\ LET left == t.left - 1
         counted == (scheduled \ {t}) \cup {[t EXCEPT !.left = left]}
         done == (360 * (t.seconds - left)) \div t.seconds
     IN IF ~practice.running
        THEN Becomes([Engine EXCEPT !.scheduled = ClearInterval(@, timer)],
                     [kind |-> "interval", born |-> t.born])
        ELSE IF left <= 0
        THEN Becomes([Engine EXCEPT
                        !.panel.time = Time("", 0),
                        !.panel.ring = 360,
                        !.handles = @ + 1,
                        !.scheduled =
                          ClearInterval(counted, timer) \cup
                          {Timer("runPhase", handles + 1, t.cfg, t.i, 0, 0,
                                 stops)}],
                     [kind |-> "interval", born |-> t.born])
        ELSE Becomes([Engine EXCEPT
                        !.panel.time = Time("", left),
                        !.panel.ring = IF done > 360 THEN 360 ELSE done,
                        !.scheduled = counted],
                     [kind |-> "interval", born |-> t.born])

\* the 200 ms timeout of line 71 fires: runPhase
NextPhase(t) ==
  /\ t \in scheduled
  /\ t.kind = "runPhase"
  /\ UNCHANGED opens
  /\ Becomes(RunPhaseOf([Engine EXCEPT !.scheduled = @ \ {t}], t.cfg, t.i),
             [kind |-> "runPhase", born |-> t.born])

\* the 300 ms timeout of line 56 fires: runTimerCycle
NextCycle(t) ==
  /\ t \in scheduled
  /\ t.kind = "runTimerCycle"
  /\ UNCHANGED opens
  /\ Becomes(RunTimerCycleOf([Engine EXCEPT !.scheduled = @ \ {t}]),
             [kind |-> "runTimerCycle", born |-> t.born])

\* the ids passed to openById
PracticeIds == {"478", "54321", "nothing"}

NextPractice ==
  \/ \E id \in PracticeIds : OpenById(id)
  \/ Start
  \/ NextStep
  \/ Stop
  \/ CloseTherapy
  \/ \E t \in scheduled : Tick(t)
  \/ \E t \in scheduled : NextPhase(t)
  \/ \E t \in scheduled : NextCycle(t)

SpecPractice == Init /\ [][NextPractice]_vars

(* --------------------------- theme helper calls ----------------------- *)
\* what no theme helper touches
ThemeFrame ==
  UNCHANGED <<state, initialState, shared, storage, entries, dirty, wstat,
              ops, restarts, issued, unsubbed, everUnsub, runtime, shelf,
              build, writer, domVars, paletteVars, statsVars, practiceVars,
              stack, ev, ret, listeners, registered, emits, handed,
              themeImpl>>

\* (mutant) setTheme keeps the theme in the store's record
ThemeWriteKeyOfStore(impl) == StoreKey(STORE_VERSION)

\* the key setTheme writes
ThemeWriteKey(impl) == ThemeKeyOf(impl)

\* window.setTheme(t). part_002 lines 20-26: setItem in a try/catch, then
\* the data-theme attribute and the theme classes; utils.js lines 12-15:
\* the attribute, then setItem (an error of it leaves setTheme). written:
\* setItem stored the value.
SetTheme(t, written) ==
  /\ stack = <<>>
  /\ Cardinality(touched) < MaxThemeCalls
  /\ themeKeys' = IF written /\ ThemeWriteKey(themeImpl) \in ThemeKeyNames
                  THEN [themeKeys EXCEPT ![ThemeWriteKey(themeImpl)] = t]
                  ELSE themeKeys
  /\ rootTheme' = IF themeImpl = Prelude
                  THEN [attr |-> t,
                        cls |-> IF t = "dark" THEN "theme-dark"
                                ELSE "theme-light"]
                  ELSE [rootTheme EXCEPT !.attr = t]
  /\ touched' = touched \cup
                  {Touch(themeImpl, "setItem", ThemeWriteKey(themeImpl))}
  /\ ThemeFrame

\* window.getTheme(). part_002 lines 12-15: getItem(THEME_KEY) || 'light';
\* utils.js lines 19-21: the data-theme attribute, no storage.
GetTheme ==
  /\ stack = <<>>
  /\ Cardinality(touched) < MaxThemeCalls
  /\ touched' = IF themeImpl = Prelude
                THEN touched \cup {Touch(themeImpl, "getItem", "THEME")}
                ELSE touched
  /\ UNCHANGED <<themeKeys, rootTheme>>
  /\ ThemeFrame

\* the theme getTheme returns
ThemeRead ==
  IF themeImpl = Prelude
  THEN (IF themeKeys["THEME"] = "" THEN "light" ELSE themeKeys["THEME"])
  ELSE (IF rootTheme.attr = "" THEN "light" ELSE rootTheme.attr)

\* window.bootTheme(), part_002 lines 36-39: setTheme(getTheme())
BootTheme(written) ==
  /\ stack = <<>>
  /\ Cardinality(touched) < MaxThemeCalls
  /\ themeKeys' = IF written
                  THEN [themeKeys EXCEPT ![ThemeKeyOf(themeImpl)] = ThemeRead]
                  ELSE themeKeys
  /\ rootTheme' = IF themeImpl = Prelude
                  THEN [attr |-> ThemeRead,
                        cls |-> IF ThemeRead = "dark" THEN "theme-dark"
                                ELSE "theme-light"]
                  ELSE [rootTheme EXCEPT !.attr = ThemeRead]
  /\ touched' = touched \cup
                  (IF themeImpl = Prelude
                   THEN {Touch(themeImpl, "getItem", "THEME")} ELSE {})
                  \cup {Touch(themeImpl, "setItem", ThemeKeyOf(themeImpl))}
  /\ ThemeFrame

\* the themes passed to setTheme
ThemeInputs == {"light", "dark"}

InitTheme ==
  /\ InitWith({Absent}, {AppCore})
  /\ IdleStats
  /\ IdlePractice
  /\ themeImpl \in {Prelude, Utils}
  /\ rootTheme = NoRootTheme
  /\ themeKeys = NoThemeKeys
  /\ touched = {}

\* the helpers beside a store whose theme is switched
NextTheme ==
  \/ \E t \in ThemeInputs, written \in BOOLEAN : SetTheme(t, written)
  \/ GetTheme
  \/ \E written \in BOOLEAN : BootTheme(written)
  \/ \E silent \in BOOLEAN :
       ops < MaxOps /\ Update("ui.theme", Str("dark"), silent)
  \/ Persist
  \/ StartNotify
  \/ Return

SpecTheme == InitTheme /\ [][NextTheme]_vars

(* ============================== claims ================================ *)
\* the record persist() writes for a tree
Written(tree) == JsonRecord(Stringify(tree))

\* C1: whenever a subscriber is invoked, the state it is handed is the
\* current state, persist has already run for it (replace, persist, notify,
\* in that order), and if that write did not fail the durable record is the
\* serialization of exactly the tree handed over.
C1_PersistedBeforeNotified ==
  ev = "invoke" =>
    /\ ~dirty
    /\ wstat # "none"
    /\ Top.arg = state
    /\ (wstat = "ok" => storage = Written(Top.arg))

\* C1 witness: a subscriber is invoked after a successful write, from inside
\* another subscriber's re-entrant mutation
C1_Witness ==
  /\ ev = "invoke"
  /\ wstat = "ok"
  /\ Len(stack) > 3

\* C2 as stated: after a silent update returns, the state holds v at path,
\* durable storage holds the new tree and no subscriber was invoked.
C2_SilentUpdateStoresTree ==
  (ev = "return" /\ ret.op = "update" /\ ret.silent) =>
    /\ GetPath(state, Split(ret.path)) = ret.val
    /\ storage = Written(state)
    /\ \A h \in Handlers : ret.cnt[h] = 0

\* C2 amended: after a silent update returns, the state holds v at path, no
\* subscriber was invoked, and durable storage holds the new tree if the
\* write succeeded, its previous content if the write failed.
C2_SilentUpdate ==
  (ev = "return" /\ ret.op = "update" /\ ret.silent) =>
    /\ GetPath(state, Split(ret.path)) = ret.val
    /\ state = ret.tree0
    /\ (ret.wrote = "ok" => storage = Written(state))
    /\ (ret.wrote = "failed" => storage = ret.storage0)
    /\ ret.wrote \in {"ok", "failed"}
    /\ \A h \in Handlers : ret.cnt[h] = 0

\* C2 witness: a silent update has returned while a handler is subscribed
C2_Witness ==
  /\ ev = "return"
  /\ ret.op = "update"
  /\ ret.silent
  /\ ret.wrote = "ok"
  /\ ret.subs0 # {}

\* C3: a non-silent update invokes each handler subscribed at the time of the
\* call exactly once, each time with the tree that update produced, whatever
\* the subscribers do while they are notified.
C3_EachSubscriberOnce ==
  (ev = "return" /\ ret.op = "update" /\ ~ret.silent) =>
    /\ \A h \in ret.subs0 : ret.cnt[h] = 1
    /\ ret.argsok

\* C4 as stated: once the unsubscribe function of fn has been called, no
\* later mutation invokes fn.
C4_NeverInvokedAfterUnsubscribe ==
  ev = "invoke" => Top.fn \notin everUnsub

\* C4 amended: a handler is in the subscribers set exactly when it has been
\* subscribed and not unsubscribed since, so a mutation invokes fn only if fn
\* was subscribed again after its unsubscribe, and unsubscribing fn removes no
\* other subscriber.
C4_InvokedOnlyWhileSubscribed ==
  /\ Live(entries) = issued \ unsubbed
  /\ ev = "invoke" => Top.fn \in issued \ unsubbed

\* C4 witness: a mutation notifies a subscriber while another handler is
\* unsubscribed
C4_Witness ==
  /\ ev = "invoke"
  /\ \E h \in unsubbed : h # Top.fn

\* C8: when the write fails the new tree stays in memory and the durable
\* record keeps its previous content, no error leaves update/setState, and a
\* non-silent mutation still runs its notification: the subscribers are
\* handed the new tree (each exactly once when no subscriber calls back into
\* the store meanwhile).
C8_WriteFailureKeepsMutation ==
  /\ (ev = "persist" /\ Top.wrote = "failed") =>
       /\ state = Top.tree0
       /\ storage = Top.storage0
  /\ ev # "threw"
  /\ (ev = "return" /\ ret.wrote = "failed") =>
       /\ ~ret.threw
       /\ ret.silent => (state = ret.tree0 /\ storage = ret.storage0)
       /\ (~ret.silent /\ ret.subs0 # {}) => \E h \in Handlers : ret.cnt[h] > 0
       /\ (~ret.silent /\ ~ret.reent) =>
            /\ \A h \in Handlers : ret.cnt[h] = IF h \in ret.subs0 THEN 1 ELSE 0
            /\ ret.argsok
            /\ state = ret.tree0
            /\ storage = ret.storage0

\* C8 witness: a non-silent mutation whose write failed has returned after
\* notifying two subscribers
C8_Witness ==
  /\ ev = "return"
  /\ ret.wrote = "failed"
  /\ ~ret.silent
  /\ ~ret.reent
  /\ Cardinality(ret.subs0) = 2

\* b is not a key of tree[a] (a may itself be missing or no object)
Missing(tree, a, b) == b \notin Keys(GetKey(tree, a))

\* C5: update("a.b.c", v) on a state where a.b does not exist creates the
\* intermediate objects, sets the leaf, and leaves unchanged by value every
\* sibling key of a, every other key inside a and every other region.
C5_CreatesIntermediates ==
  (/\ ev = "assign"
   /\ Top.op = "update"
   /\ Len(Split(Top.path)) = 3
   /\ Missing(Top.before, Split(Top.path)[1], Split(Top.path)[2])) =>
    LET a == Split(Top.path)[1]
        b == Split(Top.path)[2]
        c == Split(Top.path)[3]
        pre == Top.before
        preA == GetKey(pre, a)
        postA == GetKey(state, a)
    IN /\ GetKey(postA, b) = Obj((c :> Top.val))
       /\ Keys(state) = Keys(pre) \cup {a}
       /\ \A k \in Keys(pre) \ {a} : state.f[k] = pre.f[k]
       /\ IF IsObject(preA)
          THEN /\ postA.t = preA.t
               /\ Keys(postA) = Keys(preA) \cup {b}
               /\ \A k \in Keys(preA) : postA.f[k] = preA.f[k]
               /\ (preA.t = "arr" => postA.e = preA.e)
          ELSE postA = Obj((b :> Obj((c :> Top.val))))

\* C5 witness: update("ui.mode.x", v) where ui holds other keys and no mode
C5_Witness ==
  /\ ev = "assign"
  /\ Top.op = "update"
  /\ Top.path = "ui.mode.x"
  /\ Keys(GetKey(Top.before, "ui")) = {"page", "theme"}

\* C6: an intermediate node of the walk that is not an object (a number,
\* string, boolean, null or missing) is replaced by a new empty object that
\* then receives the rest of the path; the update raises no error and the
\* leaf holds the value.
C6_ReplacesNonObjects ==
  /\ ~(ev = "threw" /\ ret.op = "update" /\ ret.wrote = "pending")
  /\ (ev = "assign" /\ Top.op = "update") =>
       LET parts == Split(Top.path)
       IN /\ GetPath(state, parts) = Top.val
          /\ \A i \in 1..(Len(parts) - 1) :
               LET old == GetPath(Top.before, SubSeq(parts, 1, i))
                   new == GetPath(state, SubSeq(parts, 1, i))
               IN IF IsObject(old)
                  THEN new.t = old.t
                  ELSE new.t = "obj" /\ Keys(new) = {parts[i + 1]}

\* C6 witness: the walk meets null where an object is needed
C6_Witness ==
  /\ ev = "assign"
  /\ Top.op = "update"
  /\ Top.path = "ui.page"
  /\ GetKey(Top.before, "ui") = Null
  /\ GetKey(state, "ui") = Obj(("page" :> Top.val))

\* x has the type of shape and, for an object, every key of shape
RECURSIVE Conforms(_, _)
Conforms(x, shape) ==
  /\ x.t = shape.t
  /\ shape.t = "obj" =>
       \A k \in Keys(shape) : k \in Keys(x) /\ Conforms(x.f[k], shape.f[k])

\* C7 as stated: the state is always a fully-formed tree: every top-level
\* key of the initial state is present with its initial-state shape.
C7_AlwaysFullyFormed == Conforms(state, InitialStateLiteral)

\* C7 amended: update and setState with an object patch never remove a
\* top-level key, and leave unchanged every top-level region they do not
\* write (update: off the first key of the path; setState: not in the patch).
C7_TopLevelKeysKept ==
  (ev = "assign" /\ (Top.op = "update" \/ ~Top.arg.isFn)) =>
    /\ Keys(Top.before) \subseteq Keys(state)
    /\ Top.op = "update" =>
         \A k \in Keys(Top.before) \ {Split(Top.path)[1]} :
           state.f[k] = Top.before.f[k]
    /\ Top.op = "setState" =>
         \A k \in Keys(Top.before) \ Keys(Top.arg.patch) :
           state.f[k] = Top.before.f[k]

\* C7 witness: an object patch on the full tree keeps every key and breaks
\* the shape of one region
C7_Witness ==
  /\ ev = "assign"
  /\ Top.op = "setState"
  /\ ~Top.arg.isFn
  /\ Conforms(Top.before, InitialStateLiteral)
  /\ ~Conforms(state, InitialStateLiteral)
  /\ Keys(state) = Keys(InitialStateLiteral)

\* x holds only values JSON represents: no undefined, no non-finite number,
\* no named property on an array
RECURSIVE JsonSafe(_)
JsonSafe(x) ==
  CASE x.t = "undef" -> FALSE
    [] x.t = "num" -> x.v \notin {"NaN", "Infinity", "-Infinity"}
    [] x.t = "arr" -> /\ Keys(x) = {}
                      /\ \A i \in 1..Len(x.e) : JsonSafe(x.e[i])
    [] x.t = "obj" -> \A k \in Keys(x) : JsonSafe(x.f[k])
    [] OTHER -> TRUE

\* C9 as stated: whenever the last persist succeeded, a store created from
\* the durable record starts with a state deep-equal to the persisted state.
C9_RoundTrip ==
  (~dirty /\ wstat = "ok") => LoadState(storage, initialState).tree = state

\* C9 amended: the same, for a persisted state that holds only values JSON
\* represents.
C9_RoundTripJsonSafe ==
  (~dirty /\ wstat = "ok" /\ JsonSafe(state)) =>
    LoadState(storage, initialState).tree = state

\* C9 witness: a mutated tree that lacks default keys has been persisted
C9_Witness ==
  /\ ~dirty
  /\ wstat = "ok"
  /\ JsonSafe(state)
  /\ stack = <<>>
  /\ "version" \notin Keys(state)

\* C10: a store created on an absent or undeserializable record starts with
\* a fresh deep copy of the defaults; on a record that deserializes it starts
\* with exactly the deserialized value; no mutation alters the defaults.
C10_Rehydration ==
  /\ initialState = InitialStateLiteral
  /\ ~shared
  /\ ev = "create" =>
       IF storage.k = "json"
       THEN state = Parse(storage.text)
       ELSE state = InitialStateLiteral

\* C10 witness: after a reload the state is a stored tree without `version`
C10_Witness ==
  /\ ev = "create"
  /\ restarts = 1
  /\ storage.k = "json"
  /\ "version" \notin Keys(state)

\* C11 as stated: at startup a persisted tree is kept only when its
\* `version` tag equals the version the runtime expects; otherwise the state
\* is recreated from the defaults.
C11_VersionTagChecked ==
  ev = "create" =>
    IF /\ storage.k = "json"
       /\ GetKey(Parse(storage.text), "version") = Num(ToString(runtime))
    THEN state = Parse(storage.text)
    ELSE state = InitialStateOf(runtime)

\* C11 amended: the version only qualifies the storage key. At startup the
\* runtime reads the record under its own key and keeps it whatever its
\* `version` field holds; that record was written by a runtime of the same
\* version; the records written by runtimes of other versions stay under
\* their keys, unread, and then the state is the runtime's defaults.
C11_KeyedByVersion ==
  /\ \A k \in DOMAIN shelf : shelf[k].k = "json" => writer[k] # runtime
  /\ storage.k = "json" => writer[StoreKey(runtime)] = runtime
  /\ ev = "create" =>
       state = IF storage.k = "json" THEN Parse(storage.text)
               ELSE InitialStateOf(runtime)

\* C11 witness: a runtime of the bumped version starts from its defaults
\* while the record of the previous version is still stored
C11_Witness ==
  /\ ev = "create"
  /\ runtime = STORE_VERSION + 1
  /\ shelf[StoreKey(STORE_VERSION)].k = "json"
  /\ state = InitialStateOf(runtime)
  /\ state # InitialStateLiteral

\* C12: the store exposes setState: a call raises no error; with an object
\* patch the new state is the old top level with the patch keys overwritten
\* and every other top-level key unchanged, with a function it is the
\* function's result on the current tree; the state is then persisted, and
\* the subscribers are notified unless silent is true.
C12_SetStateExposed ==
  /\ ~(ev = "threw" /\ ret.op = "setState")
  /\ (ev = "assign" /\ Top.op = "setState") =>
       /\ Top.before.t = "obj"
       /\ IF Top.arg.isFn
          THEN state = ApplyFn(Top.arg.name, Top.before)
          ELSE /\ Keys(state) = Keys(Top.before) \cup Keys(Top.arg.patch)
               /\ \A k \in Keys(Top.arg.patch) : state.f[k] = Top.arg.patch.f[k]
               /\ \A k \in Keys(Top.before) \ Keys(Top.arg.patch) :
                    state.f[k] = Top.before.f[k]
  /\ (ev = "return" /\ ret.op = "setState") =>
       /\ ret.wrote \in {"ok", "failed"}
       /\ ret.wrote = "ok" => storage = Written(state)

\* C13: no error of a callback leaves emit, and a callback that raises
\* does not stop the others: when emit returns, every callback that was
\* registered for the event when emit was called, and was not removed while
\* it ran, has been invoked (exactly once each, and no other callback, when
\* no callback called the bus meanwhile), whichever of them raised.
C13_EmitIsolatesErrors ==
  /\ ev # "threw"
  /\ ev = "emitted" =>
       /\ ~ret.threw
       /\ \A c \in ret.subs0 \ ret.removed : ret.cnt[c] >= 1
       /\ ret.raised \subseteq {c \in Callbacks : ret.cnt[c] >= 1}
       /\ ~ret.reent =>
            \A c \in Callbacks : ret.cnt[c] = IF c \in ret.subs0 THEN 1 ELSE 0

\* C13 witness: emit has returned after two callbacks were invoked, the
\* first of which raised
C13_Witness ==
  /\ ev = "emitted"
  /\ ~ret.reent
  /\ Cardinality(ret.subs0) = 2
  /\ ret.raised # {}
  /\ \E c \in ret.raised : listeners.sets[ret.event][1] = c

\* C15: on and off (direct, or through the function on returned) keep, for
\* each event name, exactly the callbacks registered and not removed since:
\* off(event, cb) removes cb under event only and no other callback, off on
\* an unknown event or callback changes nothing, and emit(event) invokes
\* only callbacks that are registered for event at that moment.
C15_OffRemovesExactlyThat ==
  /\ \A e \in Events :
       Registered(listeners, e) = {c \in Callbacks : <<e, c>> \in registered}
  /\ listeners.keys = {e \in Events : \E c \in Callbacks : <<e, c>> \in handed}
  /\ ev = "call" => <<Top.event, Top.fn>> \in registered

\* C15 witness: emit invokes a callback while another callback of the same
\* event has been removed, which is still registered under the other event
C15_Witness ==
  /\ ev = "call"
  /\ \E c \in Callbacks \ {Top.fn} :
       /\ <<Top.event, c>> \in handed \ registered
       /\ \E e \in Events \ {Top.event} : <<e, c>> \in registered

\* C14: a subscriber that raises while it is notified does not abort the
\* mutation: no error leaves update/setState, the state stays replaced and
\* the persist that ran stays in effect, and the other subscribers are still
\* notified (each subscriber exactly once with the new tree when no
\* subscriber calls back into the store meanwhile).
C14_SubscriberErrorIsolated ==
  /\ ~(ev = "threw" /\ ret.raised # {})
  /\ (ev = "return" /\ ret.raised # {}) =>
       /\ ~ret.threw
       /\ ret.wrote \in {"ok", "failed"}
       /\ ret.raised \subseteq {h \in Handlers : ret.cnt[h] >= 1}
       /\ ~ret.reent =>
            /\ state = ret.tree0
            /\ ret.wrote = "ok" => storage = Written(ret.tree0)
            /\ ret.wrote = "failed" => storage = ret.storage0
            /\ \A h \in Handlers : ret.cnt[h] = IF h \in ret.subs0 THEN 1 ELSE 0
            /\ ret.argsok

\* C14 witness: a mutation has returned after notifying two subscribers, the
\* first of which raised
C14_Witness ==
  /\ ev = "return"
  /\ ~ret.reent
  /\ ret.wrote = "ok"
  /\ Cardinality(ret.subs0) = 2
  /\ entries # <<>>
  /\ entries[1] \in ret.raised

\* C16: when navigateTo(id) has run to its end (its emit has returned), with
\* r = id when id is non-empty and r = the home page otherwise, the address
\* fragment is r, the store holds ui.page = r in memory and (the write having
\* succeeded) in durable storage, and route:change was emitted with payload
\* r; for every id.
C16_NavigateToSetsAll ==
  (ev = "emitted" /\ stack # <<>> /\ ret.event = "route:change") =>
    /\ Top.id = IF Top.raw = "" THEN Home ELSE Top.raw
    /\ frag = Top.id
    /\ GetPath(state, <<"ui", "page">>) = Str(Top.id)
    /\ wstat = "ok" => storage = Written(state)
    /\ ret.payload = Str(Top.id)

\* C17 as stated: after every router transition exactly one page container
\* is visible, the one whose data-page equals the target id.
C17_ExactlyOneVisible ==
  ev = "navigated" =>
    /\ Cardinality({p \in PageContainers : display[p] = ""}) = 1
    /\ \A p \in PageContainers : display[p] = "" => p = ret.id

\* C17 amended: after every router transition a page container is visible
\* exactly when its data-page equals the target id and every other one is
\* hidden: one container is visible when the id names a container, none
\* when it names no container.
C17_OnlyTargetVisible ==
  ev = "navigated" =>
    /\ \A p \in PageContainers : display[p] = IF p = ret.id THEN "" ELSE "none"
    /\ Cardinality({p \in PageContainers : display[p] = ""}) =
         IF ret.id \in PageContainers THEN 1 ELSE 0

\* C17 witness: a transition to a known page from another one
C17_Witness ==
  /\ ev = "navigated"
  /\ ret.id = "stats"
  /\ ~ret.boot
  /\ display["stats"] = ""
  /\ display["calendar"] = "none"

\* C18: no store subscriber is invoked while a router transition runs: the
\* write of ui.page is silent.
C18_RouterNotifiesNobody ==
  /\ ev = "invoke" => \A i \in DOMAIN stack : stack[i].kind # "nav"
  /\ (ev = "return" /\ stack # <<>>) =>
       /\ ret.silent
       /\ \A h \in Handlers : ret.cnt[h] = 0

\* C18 witness: the router's write has returned, the theme subscriber being
\* subscribed and the page changed
C18_Witness ==
  /\ ev = "return"
  /\ stack # <<>>
  /\ Top.kind = "nav"
  /\ ret.subs0 = {"h1"}
  /\ ret.wrote = "ok"
  /\ ret.before # state

\* C19: moodColor is total and insensitive to re-clamping: for every
\* integer x the colour of x is a colour of the palettes and equals the
\* colour of clamp(x, -50, 50); a sum beyond the range gets the darkest step
\* of the palette its sign selects.
C19_ClampInsensitive ==
  painted # NotPainted =>
    /\ painted.color = MoodColor(painted.x)
    /\ painted.color = MoodColor(Clamp(painted.x, -MAX_ABS, MAX_ABS))
    /\ painted.color \in {GREEN_STEPS[i] : i \in 1..5} \cup
                         {BLUE_STEPS[i] : i \in 1..5} \cup {NEUTRAL_YELLOW}
    /\ painted.x > MAX_ABS => painted.color = GREEN_STEPS[1]
    /\ painted.x < -MAX_ABS => painted.color = BLUE_STEPS[1]

\* C19 witness: a sum beyond the range has been painted
C19_Witness ==
  /\ painted.x > MAX_ABS + 10
  /\ painted.color = GREEN_STEPS[1]

\* C20 as stated: a magnitude that is a multiple of 10 falls in the bucket
\* of the magnitudes just above it: classify(10) = classify(15), and 11 has
\* the bucket index of -10.
C20_MultiplesRoundUp ==
  /\ painted.x = 10 => painted.color = MoodColor(15)
  /\ painted.x = 11 => painted.idx = BucketIndex(-10)

\* C20 amended: a magnitude that is a multiple of 10 falls in the bucket of
\* the magnitudes just below it, one step lighter than the magnitudes just
\* above it: classify(10) = classify(5), classify(11) = classify(15), and 10
\* has the bucket index of -10.
C20_MultiplesStayBelow ==
  /\ (painted # NotPainted /\ painted.x # 0 /\ Abs(painted.x) <= MAX_ABS
        /\ Abs(painted.x) % 10 = 0) =>
       LET sign == IF painted.x > 0 THEN 1 ELSE -1
       IN /\ painted.idx = 5 - Abs(painted.x) \div 10
          /\ painted.idx = BucketIndex(painted.x - sign)
          /\ painted.color = MoodColor(painted.x - sign)
          /\ Abs(painted.x) < MAX_ABS =>
               painted.idx = BucketIndex(painted.x + sign) + 1
          /\ painted.idx = BucketIndex(-painted.x)
  /\ painted.x = 10 => painted.color = MoodColor(5)
  /\ painted.x = 11 => painted.color = MoodColor(15)

\* C20 witness: the sum 10 has been painted with the lightest green
C20_Witness ==
  /\ painted.x = 10
  /\ painted.idx = 4
  /\ painted.color = GREEN_STEPS[5]

\* the clamped score and the reference bucket, written from the contract:
\* the b in 1..5 with 10 * (b - 1) < magnitude <= 10 * b
Clamped(x) == IF x > 50 THEN 50 ELSE IF x < -50 THEN -50 ELSE x
CeilTenth(m) == CHOOSE b \in 1..5 : 10 * (b - 1) < m /\ m <= 10 * b

\* C21: bucketIndex matches the reference function: the result is the
\* neutral value exactly when the clamped score is 0, and moodColor is then
\* the fixed neutral colour; otherwise the result is 5 - ceil(|clamped| / 10),
\* an integer in 0..4, 0 for magnitudes in (40,50] and 4 for magnitudes in
\* (0,10].
C21_MatchesReference ==
  painted # NotPainted =>
    LET c == Clamped(painted.x)
        m == IF c < 0 THEN -c ELSE c
    IN /\ painted.idx = NoIndex <=> c = 0
       /\ c = 0 => painted.color = NEUTRAL_YELLOW
       /\ c # 0 =>
            /\ painted.idx = 5 - CeilTenth(m)
            /\ painted.idx \in 0..4
            /\ painted.color # NEUTRAL_YELLOW
            /\ m \in 41..50 => painted.idx = 0
            /\ m \in 1..10 => painted.idx = 4

\* C21 witness: a sum of magnitude in (40,50] has been painted with the
\* darkest step
C21_Witness ==
  /\ painted.x = -41
  /\ painted.idx = 0
  /\ painted.color = BLUE_STEPS[1]

\* C22: for every non-zero score x, moodColor(x) and moodColor(-x) use the
\* same darkness index, the positive one from the green palette and the
\* negative one from the blue palette.
C22_MirrorSameIndex ==
  (painted # NotPainted /\ painted.x # 0) =>
    /\ painted.idx \in 0..4
    /\ BucketIndex(-painted.x) = painted.idx
    /\ painted.x > 0 =>
         /\ painted.color = GREEN_STEPS[painted.idx + 1]
         /\ MoodColor(-painted.x) = BLUE_STEPS[painted.idx + 1]
    /\ painted.x < 0 =>
         /\ painted.color = BLUE_STEPS[painted.idx + 1]
         /\ MoodColor(-painted.x) = GREEN_STEPS[painted.idx + 1]

\* C22 witness: a negative sum has been painted with its blue step
C22_Witness ==
  /\ painted.x = -20
  /\ painted.idx = 3
  /\ painted.color = BLUE_STEPS[4]

\* the entries of the days in a range, in one list
RECURSIVE RangeEntries(_)
RangeEntries(dateKeys) ==
  IF dateKeys = <<>> THEN <<>>
  ELSE DayEntries(moodData, Head(dateKeys)) \o RangeEntries(Tail(dateKeys))
\* the score and the hour an entry counts with: a score that is not a number
\* counts as 0, a missing or non-numeric hour as hour 0
ScoreOf(e) == IF e.score.nan THEN 0 ELSE e.score.n
HourOf(e) == IF e.hour.nan THEN 0 ELSE e.hour.n
\* how many entries of a list satisfy a test, and the sum of their scores
Positive(e) == ScoreOf(e) > 0
Negative(e) == ScoreOf(e) < 0
HowMany(es, Test(_)) == Cardinality({i \in DOMAIN es : Test(es[i])})
RECURSIVE ScoreSum(_)
ScoreSum(es) ==
  IF es = <<>> THEN 0 ELSE ScoreOf(Head(es)) + ScoreSum(Tail(es))
\* the journal without the entries that count as 0
NonZeroOnly(arr) == SelectSeq(arr, LAMBDA e : ScoreOf(e) # 0)
WithoutZeros ==
  [k \in DateKeys |-> [moodData[k] EXCEPT !.arr = NonZeroOnly(@)]]

\* C23: in aggregateRange positiveShare is the rounded percentage of the
\* positive entries among the non-zero entries and negativeShare is
\* 100 - positiveShare, so the shares sum to 100 whenever a non-zero entry
\* exists; zero-score entries change neither share and are counted only in
\* zeroEntries and totalEntries; balanceSum is the sum of all scores
\* (+10, +20, -5 gives 67 / 33 / 25).
C23_SharesOfNonZero ==
  statsCall.fn = "aggregateRange" =>
    LET es == RangeEntries(statsCall.dateKeys)
        pos == HowMany(es, Positive)
        neg == HowMany(es, Negative)
        r == statsCall.result
    IN /\ pos + neg > 0 =>
            /\ ~r.positiveShare.nan /\ ~r.negativeShare.nan
            /\ 2 * r.positiveShare.n * (pos + neg) <= 200 * pos + (pos + neg)
            /\ 200 * pos + (pos + neg) < 2 * (r.positiveShare.n + 1) * (pos + neg)
            /\ r.negativeShare.n = 100 - r.positiveShare.n
            /\ r.positiveShare.n + r.negativeShare.n = 100
       /\ r.positiveShare =
            AggregateRangeOf(WithoutZeros, statsCall.dateKeys).positiveShare
       /\ r.negativeShare =
            AggregateRangeOf(WithoutZeros, statsCall.dateKeys).negativeShare
       /\ r.totalEntries = Len(es)
       /\ r.zeroEntries = Len(es) - pos - neg
       /\ r.balanceSum = ScoreSum(es)
       /\ (pos = 2 /\ neg = 1 /\ r.balanceSum = 25) =>
            (r.positiveShare.n = 67 /\ r.negativeShare.n = 33)

\* C23 witness: +10, -5 and a zero-score entry today, "20" on the earlier
\* day: 67 / 33 / 25 with one zero entry of four entries
C23_Witness ==
  /\ statsCall.fn = "aggregateRange"
  /\ statsCall.dateKeys = <<EarlierKey, TodayKey>>
  /\ statsCall.result.totalEntries = 4
  /\ statsCall.result.zeroEntries = 1
  /\ statsCall.result.positiveShare = Exact(67)
  /\ statsCall.result.negativeShare = Exact(33)
  /\ statsCall.result.balanceSum = 25

\* C24: aggregation on empty data returns zero-valued aggregates: with no
\* date keys, only empty days, or only zero-score entries, aggregateRange
\* returns positiveShare = 0, negativeShare = 0 and balanceSum = 0, and
\* entriesPerDay is 0 when there is no active day; no field is NaN. The
\* aggregates of the hourly chart are 0 for an empty day as well.
C24_EmptyDataGivesZeros ==
  /\ statsCall.fn = "aggregateRange" =>
       LET es == RangeEntries(statsCall.dateKeys)
           r == statsCall.result
       IN /\ ~r.positiveShare.nan
          /\ ~r.negativeShare.nan
          /\ ~IsNaN(r.entriesPerDay)
          /\ HowMany(es, Positive) + HowMany(es, Negative) = 0 =>
               /\ r.positiveShare = Exact(0)
               /\ r.negativeShare = Exact(0)
               /\ r.balanceSum = 0
          /\ es = <<>> =>
               /\ r.activeDays = 0
               /\ r.entriesPerDay = Ratio(0, 1)
               /\ r.totalEntries = 0
               /\ r.zeroEntries = 0
  /\ (statsCall.fn = "renderTodayHourlyChart"
        /\ DayEntries(moodData, TodayKey) = <<>>) =>
       /\ ~statsCall.threw
       /\ statsCall.totalSum = 0
       /\ statsCall.avg = Ratio(0, 1)
       /\ statsCall.aggAvg = Exact(0)
       /\ statsCall.peakHour = NoHour

\* C24 witness: the range holds an empty day and a day of zero-score
\* entries only
C24_Witness ==
  /\ statsCall.fn = "aggregateRange"
  /\ statsCall.dateKeys = <<EarlierKey, TodayKey>>
  /\ moodData[EarlierKey] = Day(<<>>)
  /\ statsCall.result.zeroEntries = 2
  /\ statsCall.result.totalEntries = 2
  /\ statsCall.result.positiveShare = Exact(0)
  /\ statsCall.result.entriesPerDay = Ratio(2, 1)

\* the entries of a list that count for hour h
InHour(es, h) == SelectSeq(es, LAMBDA e : HourOf(e) = h)
\* the list of the contract's example
ExampleEntries ==
  <<[hour |-> JsNumber(9), score |-> JsNumber(10)],
    [hour |-> JsNumber(9), score |-> JsNumber(-5)],
    [hour |-> JsNumber(14), score |-> JsNumber(30)]>>

\* C25: the hourly aggregation of today's entries produces 24 buckets where
\* bucket h is the sum of the scores of the entries with hour h (0 for an
\* hour without entries), the total is the sum of all scores and the average
\* is the total divided by the number of entries; the example list gives
\* 9:5, 14:30, total 35, average 35/3 (11.67 to two places), peak 14 / 30.
C25_HourlyBuckets ==
  (statsCall.fn = "renderTodayHourlyChart" /\ ~statsCall.threw) =>
    LET es == DayEntries(moodData, TodayKey)
    IN /\ DOMAIN statsCall.hourlyTotals = 0..23
       /\ \A h \in 0..23 :
            statsCall.hourlyTotals[h] = ScoreSum(InHour(es, h))
       /\ statsCall.totalSum = ScoreSum(es)
       /\ es # <<>> => statsCall.avg = Ratio(statsCall.totalSum, Len(es))
       /\ es = ExampleEntries =>
            /\ statsCall.hourlyTotals =
                 [h \in 0..23 |-> IF h = 9 THEN 5 ELSE IF h = 14 THEN 30 ELSE 0]
            /\ statsCall.totalSum = 35
            /\ statsCall.avg = Ratio(35, 3)
            /\ 2 * 1167 * 3 <= 200 * 35 + 3 /\ 200 * 35 + 3 < 2 * 1168 * 3
            /\ statsCall.peakHour = 14
            /\ statsCall.peakVal = 30

\* C25 witness: the example list has been aggregated
C25_Witness ==
  /\ statsCall.fn = "renderTodayHourlyChart"
  /\ ~statsCall.threw
  /\ statsCall.entries = ExampleEntries
  /\ statsCall.hourlyTotals[9] = 5
  /\ statsCall.hourlyTotals[14] = 30
  /\ statsCall.totalSum = 35
  /\ statsCall.aggAvg = Exact(117)

\* the magnitude of a sum
Magnitude(v) == IF v < 0 THEN -v ELSE v

\* C26: the peak hour is the lowest-numbered hour whose hourly sum has the
\* largest absolute value of the 24 buckets, and the peak value is that
\* hour's signed sum; on a tie in absolute value, also with opposite signs,
\* the earlier hour wins; when every hourly sum is 0 there is no peak hour.
C26_PeakIsFirstMaximum ==
  (statsCall.fn = "renderTodayHourlyChart" /\ ~statsCall.threw) =>
    LET T == statsCall.hourlyTotals
        p == statsCall.peakHour
    IN /\ (\A h \in 0..23 : T[h] = 0) <=> p = NoHour
       /\ p # NoHour =>
            /\ p \in 0..23
            /\ \A h \in 0..23 : Magnitude(T[h]) <= Magnitude(T[p])
            /\ \A h \in 0..23 : h < p => Magnitude(T[h]) < Magnitude(T[p])
            /\ statsCall.peakVal = T[p]

\* C26 witness: hours 9 and 14 tie at 5 and -5, and hour 9 is the peak
C26_Witness ==
  /\ statsCall.fn = "renderTodayHourlyChart"
  /\ ~statsCall.threw
  /\ statsCall.hourlyTotals[9] = 5
  /\ statsCall.hourlyTotals[14] = -5
  /\ statsCall.peakHour = 9
  /\ statsCall.peakVal = 5

\* the colours of the palettes
PaletteColors ==
  {GREEN_STEPS[i] : i \in 1..5} \cup {BLUE_STEPS[i] : i \in 1..5}
    \cup {NEUTRAL_YELLOW}

\* C27: in the hourly chart an hour with no entries gets the no-data style
\* and is not passed through the bucketing function, and every hour with at
\* least one entry gets the colour moodColor(sum); an hour whose entries sum
\* to 0 gets the neutral bucket colour, not the no-data style.
C27_NoDataOrMoodColor ==
  hourlyChart.drawn =>
    LET es == DayEntries(moodData, TodayKey)
    IN \A h \in 0..23 :
         LET mine == InHour(es, h)
             sum == ScoreSum(mine)
         IN /\ mine = <<>> =>
                 /\ hourlyChart.backgroundColor[h]
                      \in {"rgba(255,255,255,0.08)", "rgba(0,0,0,0.08)"}
                 /\ hourlyChart.borderColor[h]
                      \in {"rgba(255,255,255,0.25)", "rgba(0,0,0,0.25)"}
            /\ mine # <<>> =>
                 /\ hourlyChart.backgroundColor[h] = MoodColor(sum)
                 /\ hourlyChart.borderColor[h] = MoodColor(sum)
                 /\ hourlyChart.backgroundColor[h] \in PaletteColors
                 /\ sum = 0 => hourlyChart.backgroundColor[h] = NEUTRAL_YELLOW

\* C27 witness: the chart has an hour whose entries sum to 0 (neutral), an
\* hour with a positive sum and hours without entries
C27_Witness ==
  /\ hourlyChart.drawn
  /\ DayEntries(moodData, TodayKey)
       = <<[hour |-> JsNumber(9), score |-> JsNumber(0)],
           [hour |-> JsNumber(14), score |-> JsNumber(10)]>>
  /\ hourlyChart.backgroundColor[9] = NEUTRAL_YELLOW
  /\ hourlyChart.backgroundColor[14] = GREEN_STEPS[5]
  /\ hourlyChart.backgroundColor[0] = "rgba(0,0,0,0.08)"

\* C28 as stated: the hourly aggregation completes without throwing and with
\* exactly 24 numeric buckets for every list of today's entries, entries
\* whose hour is missing, non-numeric or outside 0..23 included.
C28_AggregationNeverThrows ==
  statsCall.fn = "renderTodayHourlyChart" =>
    /\ ~statsCall.threw
    /\ DOMAIN statsCall.hourlyTotals = 0..23
    /\ \A h \in 0..23 : statsCall.hourlyTotals[h] \in Int

\* the intervals that are active
ActiveIntervals == {t \in scheduled : t.kind = "interval"}

\* C29: in the practice engine at most one recurring interval timer is
\* active at any time, for any interleaving of openModal, start, stop, close
\* and timer callbacks, and it is the one `timer` holds: a prior handle is
\* cleared before a new one is installed.
C29_AtMostOneInterval ==
  /\ Cardinality(ActiveIntervals) <= 1
  /\ \A t \in ActiveIntervals : t.id = timer

\* C29 witness: a delayed runPhase of a stopped run has installed its
\* interval while the restarted run had one, and one interval is active
C29_Witness ==
  /\ fired.kind = "runPhase"
  /\ fired.born < stops
  /\ practice.running
  /\ Cardinality(ActiveIntervals) = 1
  /\ \E t \in ActiveIntervals : t.id = timer /\ t.i = 2

\* C30 as stated: after stop() or closeTherapy no timer callback scheduled
\* before the stop has an effect: no interval tick and no delayed phase or
\* cycle continuation changes the countdown, phase or ring, the engine's
\* state or its timers.
C30_NoEffectAfterStop ==
  [][(fired'.kind # "none" /\ fired'.born < stops) =>
       /\ panel' = panel
       /\ practice' = practice
       /\ timer' = timer
       /\ ActiveIntervals' = ActiveIntervals]_vars

\* C31 (as stated): durable storage is read and written by the store's
\* load and persist steps only: no other code makes a localStorage call.
C31_OnlyStoreTouchesStorage == touched = {}

\* C31 (amended): the localStorage calls made outside the store are those
\* of the theme helpers, under the helpers' own keys 'theme' and 'THEME'
\* and never under the store's key, and the stored theme is a theme passed
\* to setTheme or the default; the store's record is the serialization
\* written by persist, whatever the helpers did.
C31_HelpersKeepToTheirKeys ==
  /\ \A c \in touched :
       /\ c.by \in {Prelude, Utils}
       /\ c.by = themeImpl
       /\ c.key = ThemeKeyOf(c.by)
       /\ c.key # StoreKey(STORE_VERSION)
       /\ c.key # StoreKeyFixed(STORE_VERSION)
  /\ \A k \in ThemeKeyNames :
       /\ themeKeys[k] \in ThemeInputs \cup {""}
       /\ themeKeys[k] # "" =>
            Touch(themeImpl, "setItem", k) \in touched
  /\ wstat = "ok" /\ stack = <<>> => storage = JsonRecord(Stringify(state))

\* the store has persisted a theme switch and setTheme of utils.js has
\* stored a theme under 'theme'
C31_Witness ==
  /\ wstat = "ok"
  /\ storage # Absent
  /\ themeKeys["theme"] = "dark"
  /\ Touch(Utils, "setItem", "theme") \in touched

\* the router is at rest: no call is running, no hashchange event is queued
\* and the boot code has run
Quiescent == stack = <<>> /\ pending = 0 /\ navs > 0
\* route:change emissions so far, at rest: the emit calls but the one of
\* app:ready made by the boot code (no callback of SpecRouter emits)
RouteChanges == emits - 1
\* writes of ui.page so far: the update calls but the one of ThemeUpdate
PageWrites ==
  ops - (IF GetPath(state, <<"ui", "theme">>) = Str("dark") THEN 1 ELSE 0)

\* C32: each navigation request (the boot on the opening address, a
\* navigateTo call from code or a data-nav click, a user change of the
\* fragment) results in exactly one route:change emission and exactly one
\* write of ui.page, the hashchange events that navigateTo itself caused
\* included: at rest both counts equal the number of requests.
C32_OnceForEachRequest ==
  Quiescent => RouteChanges = navs /\ PageWrites = navs

\* C33: the chain navigateTo -> fragment change -> hashchange -> navigateTo
\* comes to rest, and at rest the address fragment, the visible page and
\* ui.page, in memory and (the last write having succeeded) in durable
\* storage, are those of the id the last navigation request named.
C33_RestAgreesWithRequest ==
  Quiescent =>
    /\ frag = asked
    /\ \A p \in PageContainers : display[p] = "" <=> p = asked
    /\ GetPath(state, <<"ui", "page">>) = Str(asked)
    /\ wstat = "ok" => storage = Written(state)

\* C34: whenever a route:change handler is called with payload id, the page
\* switch is complete: the address fragment is id, the page containers are
\* toggled for id, and ui.page is id in memory and (the write having
\* succeeded) in durable storage.
C34_SwitchedBeforeHandlers ==
  (ev = "call" /\ Top.kind = "cb" /\ Top.event = "route:change") =>
    /\ Str(frag) = Top.arg
    /\ \A p \in PageContainers : display[p] = "" <=> Str(p) = Top.arg
    /\ GetPath(state, <<"ui", "page">>) = Top.arg
    /\ wstat = "ok" => storage = Written(state)

C36_OnlyRestartedRunDrives ==
  [][(/\ practice.running
      /\ practice.cfg.type = "timer"
      /\ fired'.kind \in {"runPhase", "runTimerCycle"}
      /\ fired'.born < stops) =>
       /\ panel'.phase = panel.phase
       /\ panel'.time = panel.time
       /\ timer' = timer
       /\ practice'.cycle = practice.cycle]_vars

====
